---- MODULE Spec2Model ----
(***************************************************************************)
(* Bounded-time execution core of the DeepSeek-Prover evaluation harness.  *)
(*                                                                         *)
(*   Part I   the Process Supervisor: check_lean_file and                  *)
(*            kill_process_tree (src/lean_utils.py), together with the     *)
(*            process tree of the Lean child it supervises.                *)
(*   Part II  the Bounded Task Executor: safe_generate and its             *)
(*            generate_worker thread, driven by the attempt loop of        *)
(*            evaluate_minif2f (src/eval_minif2f.py; the same code is in   *)
(*            src/eval_putnam.py).                                         *)
(*                                                                         *)
(*   Part III the Metrics Tracker and the shard merge: MetricsTracker      *)
(*            (src/metrics.py) and merge_shards (scripts/merge_shards.py)  *)
(*            over a file system of shard corpora.                         *)
(*   Part IV  the problem loop of evaluate_putnam (src/eval_putnam.py)     *)
(*            with its Lean sanity check, its shutdown polls and the       *)
(*            tracker calls that seal a problem and save the metrics.      *)
(*   Part V   the metrics/ directory of one output_dir over several runs:  *)
(*            the file names of save_metrics (src/metrics.py) and the      *)
(*            choice of load_latest_metrics (scripts/merge_shards.py).     *)
(*                                                                         *)
(* Each part has its own specifications (SpecSup, FairSpecSup,             *)
(* SpecSupShutdown, SpecGen, SpecTracker, SpecMetrics, SpecMerge,          *)
(* SpecEval, SpecSnap); the variables of the other parts stay at their     *)
(* initial values.                                                         *)
(***************************************************************************)
EXTENDS Integers, Sequences, FiniteSets, TLC

(***************************************************************************)
(* Bounds                                                                  *)
(***************************************************************************)
\* number of process ids the Lean process tree may use (child + descendants)
MaxProcs == 2

\* pid of the direct child (proc.pid); pid 0 stands for init, the process
\* that adopts orphans
LeanPid == 1
InitPid == 0
Pids == 1..MaxProcs

\* attempts per problem (NUM_SAMPLES, 32 in config.py, scaled down)
NUM_SAMPLES == 2
\* seconds done.wait() waits (MODEL_GENERATION_TIMEOUT, 300 by default,
\* scaled down)
MODEL_GENERATION_TIMEOUT == 1
\* the wall clock stops at MaxTime
MaxTime == 2

Calls == 0..(NUM_SAMPLES - 1)
\* value of a time slot that holds None
NoTime == -1

\* the K of pass_at_8 and of pass_at_32 (8 and 32 in metrics.py and
\* merge_shards.py, scaled down together with the attempt lists)
PassMid == 2
PassMax == 3
\* longest attempt list handed to finish_problem: one more than PassMax
MaxAttempts == PassMax + 1
\* problems one tracker finishes
MaxProblems == 2
\* shard directories under the sharded root (shard_0, shard_1, ...)
MaxShards == 2

VARIABLES
    \* ---- Part I: check_lean_file -------------------------------------
    spc,              \* position inside check_lean_file
    path_exists,      \* the temporary .lean file exists on disk
    sret,             \* the returned tuple (<<>> while nothing was returned)
    timeout_occurred, \* local flag of check_lean_file
    kt_caller,        \* which call site of kill_process_tree is active
    kt_result,        \* what kill_process_tree returned ("none" before)
    tree_procs,       \* children + [parent] handed to psutil.wait_procs
    \* ---- Part I: the operating system's view of the child's tree ------
    alive,            \* running processes of the tree
    spawned,          \* every process the tree ever contained
    ppid,             \* parent of each process (InitPid once orphaned)
    pgrp,             \* members of the child's process group
    pipes,            \* processes holding the child's stdout/stderr pipes
    ignores_term,     \* processes that ignore SIGTERM
    rc,               \* proc.returncode: <<>> (None) or <<code>>
    sig_log,          \* signals sent by the supervisor, in order
    \* ---- Part II: the attempt loop of evaluate_minif2f ----------------
    now,              \* time.time()
    shutdown,         \* signal_handler._shutdown_requested
    dpc,              \* position of the driver thread
    attempt,          \* loop variable of "for attempt in attempt_bar"
    attempts_list,    \* Attempts recorded for the problem
    generation_start, \* local of safe_generate
    gret,             \* value returned by the current safe_generate
    solution_block,   \* result of extract_solution_block
    lean_start,       \* local of the attempt loop
    \* ---- Part II: one safe_generate call per attempt (closure state) ---
    wpc,              \* position of the call's generate_worker thread
    result,           \* result[0]
    error,            \* error[0]
    start_time,       \* start_time[0]
    end_time,         \* end_time[0]
    done,             \* threading.Event done
    cancelled,        \* threading.Event cancelled
    \* ---- Part II: history ----------------------------------------------
    writes,           \* per call and slot, how often the worker wrote it
    reads,            \* per call, the slots the caller has read
    racy,             \* a slot was read before the worker's last write or
                      \* written after done was set
    wraised,          \* per call, the worker's body raised
    lean_started,     \* attempts for which check_lean_file was called
    \* ---- Part III: MetricsTracker and merge_shards ---------------------
    problem_results,  \* MetricsTracker.problem_results
    online,           \* EvaluationMetrics of compute_metrics (<<>> before)
    fs,               \* the directories: proofs/*.json and metrics/*.json
    output_dir,       \* argument of merge_shards
    mode,             \* argument of merge_shards (--mode), "None" if absent
    mpc,              \* how merge_shards ended ("idle" before it ran)
    merged,           \* the merged metrics dict (<<>> while none)
    \* ---- Part IV: evaluate_putnam ---------------------------------------
    lake_found,       \* the command "lake" can be launched
    epc,              \* position of evaluate_putnam
    sanity_warned,    \* the sanity check printed its warning
    problems_done,    \* problems handed to finish_problem
    p_attempt,        \* loop variable of the attempt loop
    p_attempts_list,  \* attempts_list of the current problem
    finished,         \* the attempt lists handed to finish_problem
    \* ---- Part V: the metrics/ directory over several runs --------------
    wall_clock,       \* datetime.now(), in seconds
    saved,            \* number of save_metrics calls made so far
    metrics_files     \* metrics/*.json: file name -> the call that wrote it

supVars == <<spc, path_exists, sret, timeout_occurred, kt_caller, kt_result, tree_procs,
             alive, spawned, ppid, pgrp, pipes, ignores_term, rc, sig_log>>

genVars == <<now, shutdown, dpc, attempt, attempts_list, generation_start,
             gret, solution_block, lean_start, wpc, result, error, start_time, end_time,
             done, cancelled, writes, reads, racy, wraised, lean_started>>

mrgVars == <<problem_results, online, fs, output_dir, mode, mpc, merged>>

\* the variables of the parts that come after Part II
evalVars == <<lake_found, epc, sanity_warned, problems_done, p_attempt,
              p_attempts_list, finished>>

snapVars == <<wall_clock, saved, metrics_files>>

extVars == <<mrgVars, evalVars, snapVars>>

vars == <<supVars, genVars, extVars>>

(***************************************************************************)
(* Part I.  Process tree helpers                                           *)
(***************************************************************************)
\* psutil.Process.children(recursive=False): running processes whose parent is p
Children(p) == {q \in alive : ppid[q] = p}

\* psutil.Process.children(recursive=True)
RECURSIVE DescendantsFrom(_, _)
DescendantsFrom(S, n) ==
    IF n = 0 THEN S
    ELSE DescendantsFrom(S \cup UNION {Children(p) : p \in S}, n - 1)

Descendants(p) == DescendantsFrom(Children(p), MaxProcs)

\* ascending list of a set of pids (the order psutil returns them in is the
\* order of the process table)
RECURSIVE PidSeq(_)
PidSeq(S) ==
    IF S = {} THEN <<>>
    ELSE LET m == CHOOSE x \in S : \A y \in S : x <= y
         IN  <<m>> \o PidSeq(S \ {m})

\* one entry of the signal log: os.killpg signals a "group", os.kill and the
\* psutil/Popen methods signal a "process"
Signal(sig, to, pid) == [sig |-> sig, to |-> to, pid |-> pid]

\* log entries for one signal sent to each pid of a list
RECURSIVE SignalEach(_, _)
SignalEach(sig, ps) ==
    IF ps = <<>> THEN <<>>
    ELSE <<Signal(sig, "process", Head(ps))>> \o SignalEach(sig, Tail(ps))

\* the kernel's bookkeeping when the processes of D die: they leave the
\* process table, their pipes close, their children are adopted by init
DieAlive(D) == alive \ D
DiePipes(D) == pipes \ D
DiePpid(D)  == [q \in Pids |-> IF ppid[q] \in D THEN InitPid ELSE ppid[q]]
DieRc(D, code) == IF LeanPid \in D /\ LeanPid \in alive THEN <<code>> ELSE rc

\* the finally block of check_lean_file: remove the temp file if it exists
FinallyRemove(exists) == IF exists THEN FALSE ELSE exists

(***************************************************************************)
(* Part I.  check_lean_file                                                *)
(***************************************************************************)
SupInit ==
    /\ spc = "mkstemp"
    /\ path_exists = FALSE
    /\ sret = <<>>
    /\ timeout_occurred = FALSE
    /\ kt_caller = "none"
    /\ kt_result = "none"
    /\ tree_procs = {}
    /\ alive = {}
    /\ spawned = {}
    /\ ppid = [q \in Pids |-> InitPid]
    /\ pgrp = {}
    /\ pipes = {}
    /\ ignores_term = {}
    /\ rc = <<>>
    /\ sig_log = <<>>

osVars == <<alive, spawned, ppid, pgrp, pipes, ignores_term, rc>>

\* lines 136-142: mkstemp, with the uuid fallback; if the fallback's os.open
\* fails too the OSError propagates to the caller
CreateTemp ==
    /\ spc = "mkstemp"
    /\ \E created \in BOOLEAN :
          IF created
          THEN /\ path_exists' = TRUE
               /\ spc' = "write"
          ELSE /\ path_exists' = FALSE
               /\ spc' = "raised"
    /\ UNCHANGED <<genVars, extVars, sret, timeout_occurred, kt_caller, kt_result, tree_procs, osVars, sig_log>>

\* lines 144-152: write the payload; on failure close the fd and return the
\* three-field tuple of line 152, before the try/finally of line 157 is entered
WriteTemp ==
    /\ spc = "write"
    /\ \E written \in BOOLEAN :
          IF written
          THEN /\ spc' = "popen"
               /\ sret' = sret
          ELSE /\ spc' = "returned"
               /\ sret' = <<FALSE, "", "Failed to write temp file">>
    /\ UNCHANGED <<genVars, extVars, path_exists, timeout_occurred, kt_caller, kt_result, tree_procs, osVars, sig_log>>

\* lines 161-168: subprocess.Popen(..., start_new_session=True)
PopenOk ==
    /\ spc = "popen"
    /\ spc' = "communicate"
    /\ alive' = {LeanPid}
    /\ spawned' = {LeanPid}
    /\ pgrp' = {LeanPid}
    /\ pipes' = {LeanPid}
    /\ \E ig \in BOOLEAN : ignores_term' = IF ig THEN {LeanPid} ELSE {}
    /\ UNCHANGED <<genVars, extVars, path_exists, sret, timeout_occurred, kt_caller, kt_result, tree_procs,
                   ppid, rc, sig_log>>

\* lines 211-213 and 223-229: "lake" not found
PopenNotFound ==
    /\ spc = "popen"
    /\ spc' = "returned"
    /\ sret' = <<FALSE, "", "Failed to run Lean", FALSE>>
    /\ path_exists' = FinallyRemove(path_exists)
    /\ UNCHANGED <<genVars, extVars, timeout_occurred, kt_caller, kt_result, tree_procs, osVars, sig_log>>

\* lines 214-221 with proc = None: Popen raised something else
PopenError ==
    /\ spc = "popen"
    /\ spc' = "returned"
    /\ sret' = <<FALSE, "", "Unexpected error running Lean", FALSE>>
    /\ path_exists' = FinallyRemove(path_exists)
    /\ UNCHANGED <<genVars, extVars, timeout_occurred, kt_caller, kt_result, tree_procs, osVars, sig_log>>

(***************************************************************************)
(* Part I.  What the Lean child and its descendants do on their own        *)
(***************************************************************************)
\* positions of check_lean_file at which the child's tree exists
TreeLive == {"communicate", "killpg", "kill_tree", "wait_procs",
             "proc_kill", "proc_wait"}

\* a process of the tree starts a child, which inherits group and pipes
Fork ==
    /\ spc \in TreeLive
    /\ \E p \in alive, q \in Pids \ spawned, ig \in BOOLEAN :
          /\ alive' = alive \cup {q}
          /\ spawned' = spawned \cup {q}
          /\ ppid' = [ppid EXCEPT ![q] = p]
          /\ pgrp' = IF p \in pgrp THEN pgrp \cup {q} ELSE pgrp
          /\ pipes' = IF p \in pipes THEN pipes \cup {q} ELSE pipes
          /\ ignores_term' = IF ig THEN ignores_term \cup {q} ELSE ignores_term
    /\ UNCHANGED <<genVars, extVars, spc, path_exists, sret, timeout_occurred, kt_caller, kt_result,
                   tree_procs, rc, sig_log>>

\* a descendant calls setsid()/setpgid() and leaves the child's group
LeaveGroup ==
    /\ spc \in TreeLive
    /\ \E q \in (alive \cap pgrp) \ {LeanPid} :
          pgrp' = pgrp \ {q}
    /\ UNCHANGED <<genVars, extVars, spc, path_exists, sret, timeout_occurred, kt_caller, kt_result,
                   tree_procs, alive, spawned, ppid, pipes, ignores_term,
                   rc, sig_log>>

\* a process closes its copies of the child's stdout/stderr
ClosePipes ==
    /\ spc \in TreeLive
    /\ \E q \in pipes : pipes' = pipes \ {q}
    /\ UNCHANGED <<genVars, extVars, spc, path_exists, sret, timeout_occurred, kt_caller, kt_result,
                   tree_procs, alive, spawned, ppid, pgrp, ignores_term,
                   rc, sig_log>>

\* a process exits on its own; the direct child exits with code 0 or 1
ProcExit ==
    /\ spc \in TreeLive
    /\ \E p \in alive, code \in {0, 1} :
          /\ alive' = DieAlive({p})
          /\ pipes' = DiePipes({p})
          /\ ppid' = DiePpid({p})
          /\ rc' = DieRc({p}, code)
    /\ UNCHANGED <<genVars, extVars, spc, path_exists, sret, timeout_occurred, kt_caller, kt_result,
                   tree_procs, spawned, pgrp, ignores_term, sig_log>>

(***************************************************************************)
(* Part I.  proc.communicate(timeout=timeout), lines 170-174 and 208-209   *)
(***************************************************************************)
\* communicate() returns once both pipes reached EOF and the child exited
CommunicateDone == pipes = {} /\ LeanPid \notin alive

\* variant: success reported whatever proc.returncode is
CommunicateReturnAnyCode ==
    /\ spc = "communicate"
    /\ CommunicateDone
    /\ spc' = "returned"
    /\ sret' = <<TRUE, "stdout", "stderr", timeout_occurred>>
    /\ path_exists' = FinallyRemove(path_exists)
    /\ UNCHANGED <<genVars, extVars, timeout_occurred, kt_caller, kt_result, tree_procs, osVars, sig_log>>

\* lines 208-209: success = (proc.returncode == 0)
CommunicateReturn ==
    /\ spc = "communicate"
    /\ CommunicateDone
    /\ spc' = "returned"
    /\ sret' = <<rc = <<0>>, "stdout", "stderr", timeout_occurred>>
    /\ path_exists' = FinallyRemove(path_exists)
    /\ UNCHANGED <<genVars, extVars, timeout_occurred, kt_caller, kt_result, tree_procs, osVars, sig_log>>

\* variant: communicate() called without timeout=, so that TimeoutExpired is
\* never raised
CommunicateWithoutTimeout ==
    /\ spc = "communicate"
    /\ FALSE
    /\ UNCHANGED vars

\* subprocess.TimeoutExpired: the timeout elapsed before communicate() was done
CommunicateTimeout ==
    /\ spc = "communicate"
    /\ ~CommunicateDone
    /\ spc' = "killpg"
    /\ timeout_occurred' = TRUE
    /\ UNCHANGED <<genVars, extVars, path_exists, sret, kt_caller, kt_result, tree_procs, osVars, sig_log>>

\* variant: the handler of lines 214-221 without its call of
\* kill_process_tree
CommunicateErrorNoCleanup ==
    /\ spc = "communicate"
    /\ spc' = "returned"
    /\ sret' = <<FALSE, "", "Unexpected error running Lean", FALSE>>
    /\ path_exists' = FinallyRemove(path_exists)
    /\ UNCHANGED <<genVars, extVars, kt_caller, kt_result, timeout_occurred, tree_procs, osVars,
                   sig_log>>

\* any other exception out of communicate() (e.g. undecodable output with
\* text=True): handled by lines 214-221 with proc set
CommunicateError ==
    /\ spc = "communicate"
    /\ spc' = "kill_tree"
    /\ kt_caller' = "except"
    /\ UNCHANGED <<genVars, extVars, kt_result, path_exists, sret, timeout_occurred, tree_procs, osVars, sig_log>>

(***************************************************************************)
(* Part I.  The timeout path, lines 174-206, and kill_process_tree         *)
(***************************************************************************)
\* lines 180-186: os.killpg(os.getpgid(proc.pid), signal.SIGKILL).  The child
\* has not been reaped, so getpgid succeeds; SIGKILL cannot be ignored
KillPg ==
    /\ spc = "killpg"
    /\ LET D == alive \cap pgrp
       IN  /\ alive' = DieAlive(D)
           /\ pipes' = DiePipes(D)
           /\ ppid' = DiePpid(D)
           /\ rc' = DieRc(D, -9)
    /\ sig_log' = Append(sig_log, Signal("SIGKILL", "group", LeanPid))
    /\ spc' = "kill_tree"
    /\ kt_caller' = "timeout"
    /\ UNCHANGED <<genVars, extVars, kt_result, path_exists, sret, timeout_occurred, tree_procs, spawned,
                   pgrp, ignores_term>>

\* kill_process_tree lines 69-82: enumerate the children of pid recursively,
\* terminate() each child, then the parent.  SIGTERM ends a process unless it
\* ignores the signal
TermTargets(pid) == Descendants(pid) \cup {pid}

KillTreeTerminate ==
    /\ spc = "kill_tree"
    /\ LET children == Descendants(LeanPid)
           D == (TermTargets(LeanPid) \cap alive) \ ignores_term
       IN  /\ tree_procs' = children \cup {LeanPid}
           /\ sig_log' = sig_log \o SignalEach("SIGTERM", PidSeq(children))
                                 \o <<Signal("SIGTERM", "process", LeanPid)>>
           /\ alive' = DieAlive(D)
           /\ pipes' = DiePipes(D)
           /\ ppid' = DiePpid(D)
           /\ rc' = DieRc(D, -15)
    /\ spc' = "wait_procs"
    /\ UNCHANGED <<genVars, extVars, path_exists, sret, timeout_occurred, kt_caller, kt_result, spawned,
                   pgrp, ignores_term>>

\* kill_process_tree lines 85-94: psutil.wait_procs(children + [parent],
\* timeout=5) returns (gone, alive) when all are gone or after 5 seconds,
\* whichever is first; every process still alive is then kill()ed.  Back in
\* check_lean_file the result is ignored (lines 189-192, 216-221)
KillTreeWaitKill ==
    /\ spc = "wait_procs"
    /\ LET D == tree_procs \cap alive
       IN  /\ sig_log' = sig_log \o SignalEach("SIGKILL", PidSeq(D))
           /\ alive' = DieAlive(D)
           /\ pipes' = DiePipes(D)
           /\ ppid' = DiePpid(D)
           /\ rc' = DieRc(D, -9)
    /\ tree_procs' = {}
    /\ IF kt_caller = "timeout"
       THEN /\ spc' = "proc_kill"
            /\ UNCHANGED <<genVars, extVars, sret, path_exists>>
       ELSE /\ spc' = "returned"
            /\ sret' = <<FALSE, "", "Unexpected error running Lean", FALSE>>
            /\ path_exists' = FinallyRemove(path_exists)
    /\ kt_caller' = "none"
    /\ kt_result' = "True"
    /\ UNCHANGED <<genVars, extVars, timeout_occurred, spawned, pgrp, ignores_term>>

\* kill_process_tree lines 95-97: psutil raises NoSuchProcess or AccessDenied
\* (out of children(), of terminate() or of kill() on a process of another
\* user); the function returns False without sending a further signal, and
\* the caller, which ignores the result, carries on (lines 189-192, 216-221)
KillTreeFails ==
    /\ spc \in {"kill_tree", "wait_procs"}
    /\ tree_procs' = {}
    /\ IF kt_caller = "timeout"
       THEN /\ spc' = "proc_kill"
            /\ UNCHANGED <<sret, path_exists>>
       ELSE /\ spc' = "returned"
            /\ sret' = <<FALSE, "", "Unexpected error running Lean", FALSE>>
            /\ path_exists' = FinallyRemove(path_exists)
    /\ kt_caller' = "none"
    /\ kt_result' = "False"
    /\ UNCHANGED <<genVars, extVars, timeout_occurred, osVars, sig_log>>

\* lines 195-198: proc.kill(); Popen.send_signal polls first and signals only
\* a child that has not exited
ProcKill ==
    /\ spc = "proc_kill"
    /\ IF LeanPid \in alive
       THEN /\ sig_log' = Append(sig_log, Signal("SIGKILL", "process", LeanPid))
            /\ alive' = DieAlive({LeanPid})
            /\ pipes' = DiePipes({LeanPid})
            /\ ppid' = DiePpid({LeanPid})
            /\ rc' = DieRc({LeanPid}, -9)
       ELSE UNCHANGED <<sig_log, alive, pipes, ppid, rc>>
    /\ spc' = "proc_wait"
    /\ UNCHANGED <<genVars, extVars, path_exists, sret, timeout_occurred, kt_caller, kt_result, tree_procs,
                   spawned, pgrp, ignores_term>>

\* lines 200-206 and 223-229: proc.wait(timeout=2) returns when the child is
\* reaped or after 2 seconds; then the timeout tuple is returned
ProcWaitReturn ==
    /\ spc = "proc_wait"
    /\ spc' = "returned"
    /\ sret' = <<FALSE, "", "Lean check TIMEOUT", TRUE>>
    /\ path_exists' = FinallyRemove(path_exists)
    /\ UNCHANGED <<genVars, extVars, timeout_occurred, kt_caller, kt_result, tree_procs, osVars, sig_log>>

(***************************************************************************)
(* Part II.  safe_generate: the generate_worker thread                     *)
(* (eval_minif2f.py lines 72-105; eval_putnam.py lines 70-103 are the same)*)
(***************************************************************************)
Slots == {"result", "error", "start_time", "end_time"}

GenInit ==
    /\ now = 0
    /\ shutdown = FALSE
    /\ dpc = "loop"
    /\ attempt = 0
    /\ attempts_list = <<>>
    /\ generation_start = 0
    /\ gret = <<>>
    /\ solution_block = "None"
    /\ lean_start = 0
    /\ wpc = [c \in Calls |-> "unborn"]
    /\ result = [c \in Calls |-> "None"]
    /\ error = [c \in Calls |-> "None"]
    /\ start_time = [c \in Calls |-> NoTime]
    /\ end_time = [c \in Calls |-> NoTime]
    /\ done = [c \in Calls |-> FALSE]
    /\ cancelled = [c \in Calls |-> FALSE]
    /\ writes = [c \in Calls |-> [sl \in Slots |-> 0]]
    /\ reads = [c \in Calls |-> {}]
    /\ racy = FALSE
    /\ wraised = [c \in Calls |-> FALSE]
    /\ lean_started = {}

driverVars == <<shutdown, dpc, attempt, attempts_list, generation_start, gret,
                solution_block, lean_start, lean_started>>

\* positions at which a worker thread is executing generate_worker
WorkerRunning == {"check_start", "tokenize", "generate", "after_generate",
                  "write_end", "except", "finally"}

\* the worker of call c writes slot sl; a write after done.set() is a race
NoteWrite(c, ws) ==
    /\ writes' = [writes EXCEPT ![c] =
                    [sl \in Slots |-> IF sl \in ws THEN @[sl] + 1 ELSE @[sl]]]
    /\ racy' = (racy \/ (ws # {} /\ done[c]))

\* lines 74-78: first checkpoint, then start_time[0] = time.time()
WorkerCheckStart(c) ==
    /\ wpc[c] = "check_start"
    /\ IF cancelled[c]
       THEN /\ wpc' = [wpc EXCEPT ![c] = "finally"]
            /\ UNCHANGED <<start_time, writes, racy>>
       ELSE /\ wpc' = [wpc EXCEPT ![c] = "tokenize"]
            /\ start_time' = [start_time EXCEPT ![c] = now]
            /\ NoteWrite(c, {"start_time"})
    /\ UNCHANGED <<supVars, extVars, now, driverVars, result, error, end_time, done,
                   cancelled, reads, wraised>>

\* variant: no checkpoint after tokenization
WorkerTokenizeUnchecked(c) ==
    /\ wpc[c] = "tokenize"
    /\ \E raises \in BOOLEAN :
          IF raises
          THEN /\ wpc' = [wpc EXCEPT ![c] = "except"]
               /\ wraised' = [wraised EXCEPT ![c] = TRUE]
          ELSE /\ wpc' = [wpc EXCEPT ![c] = "generate"]
               /\ wraised' = wraised
    /\ UNCHANGED <<supVars, extVars, now, driverVars, result, error, start_time,
                   end_time, done, cancelled, writes, reads, racy>>

\* lines 79-83: tokenizer(prompt).to(device), which may raise, then the
\* second checkpoint
WorkerTokenize(c) ==
    /\ wpc[c] = "tokenize"
    /\ \E raises \in BOOLEAN :
          IF raises
          THEN /\ wpc' = [wpc EXCEPT ![c] = "except"]
               /\ wraised' = [wraised EXCEPT ![c] = TRUE]
          ELSE /\ wpc' = [wpc EXCEPT ![c] =
                             IF cancelled[c] THEN "finally" ELSE "generate"]
               /\ wraised' = wraised
    /\ UNCHANGED <<supVars, extVars, now, driverVars, result, error, start_time,
                   end_time, done, cancelled, writes, reads, racy>>

\* lines 85-92: model.generate(...) returns or raises; it cannot be
\* interrupted and nothing bounds how long it runs
WorkerGenerate(c) ==
    /\ wpc[c] = "generate"
    /\ \E raises \in BOOLEAN :
          IF raises
          THEN /\ wpc' = [wpc EXCEPT ![c] = "except"]
               /\ wraised' = [wraised EXCEPT ![c] = TRUE]
          ELSE /\ wpc' = [wpc EXCEPT ![c] = "after_generate"]
               /\ wraised' = wraised
    /\ UNCHANGED <<supVars, extVars, now, driverVars, result, error, start_time,
                   end_time, done, cancelled, writes, reads, racy>>

\* lines 94-97: third checkpoint; unless cancelled, decode (may raise) and
\* publish the text in result[0]
WorkerPublish(c) ==
    /\ wpc[c] = "after_generate"
    /\ IF cancelled[c]
       THEN /\ wpc' = [wpc EXCEPT ![c] = "write_end"]
            /\ UNCHANGED <<result, writes, racy, wraised>>
       ELSE \E raises \in BOOLEAN :
              IF raises
              THEN /\ wpc' = [wpc EXCEPT ![c] = "except"]
                   /\ wraised' = [wraised EXCEPT ![c] = TRUE]
                   /\ UNCHANGED <<result, writes, racy>>
              ELSE /\ wpc' = [wpc EXCEPT ![c] = "write_end"]
                   /\ result' = [result EXCEPT ![c] = "text"]
                   /\ NoteWrite(c, {"result"})
                   /\ wraised' = wraised
    /\ UNCHANGED <<supVars, extVars, now, driverVars, error, start_time, end_time,
                   done, cancelled, reads>>

\* line 98: end_time[0] = time.time()
WorkerWriteEnd(c) ==
    /\ wpc[c] = "write_end"
    /\ wpc' = [wpc EXCEPT ![c] = "finally"]
    /\ end_time' = [end_time EXCEPT ![c] = now]
    /\ NoteWrite(c, {"end_time"})
    /\ UNCHANGED <<supVars, extVars, now, driverVars, result, error, start_time, done,
                   cancelled, reads, wraised>>

\* variant: the test of the cancellation flag in the except block inverted
ExceptWritesInverted(c) ==
    (IF cancelled[c] THEN {"error"} ELSE {})
        \cup (IF start_time[c] # NoTime THEN {"end_time"} ELSE {})

\* the slots the except block (lines 99-103) writes
ExceptWrites(c) ==
    (IF cancelled[c] THEN {} ELSE {"error"})
        \cup (IF start_time[c] # NoTime THEN {"end_time"} ELSE {})

\* lines 99-103: except Exception
WorkerExcept(c) ==
    /\ wpc[c] = "except"
    /\ wpc' = [wpc EXCEPT ![c] = "finally"]
    /\ error' = [error EXCEPT ![c] =
                   IF "error" \in ExceptWrites(c) THEN "msg" ELSE @]
    /\ end_time' = [end_time EXCEPT ![c] =
                      IF "end_time" \in ExceptWrites(c) THEN now ELSE @]
    /\ NoteWrite(c, ExceptWrites(c))
    /\ UNCHANGED <<supVars, extVars, now, driverVars, result, start_time, done,
                   cancelled, reads, wraised>>

\* lines 104-105: finally: done.set(); the thread then ends
WorkerFinally(c) ==
    /\ wpc[c] = "finally"
    /\ wpc' = [wpc EXCEPT ![c] = "exited"]
    /\ done' = [done EXCEPT ![c] = TRUE]
    /\ UNCHANGED <<supVars, extVars, now, driverVars, result, error, start_time,
                   end_time, cancelled, writes, reads, racy, wraised>>

WorkerStep ==
    \E c \in Calls :
        \/ WorkerCheckStart(c)
        \/ WorkerTokenize(c)
        \/ WorkerGenerate(c)
        \/ WorkerPublish(c)
        \/ WorkerWriteEnd(c)
        \/ WorkerExcept(c)
        \/ WorkerFinally(c)

(***************************************************************************)
(* Part II.  safe_generate: the calling thread, and the attempt loop       *)
(***************************************************************************)
workerVars == <<result, error, start_time, end_time, done, writes, wraised>>

\* variant: total_time taken from the generation time alone
RecordAttemptGenTimeOnly(attempt_number, success, generation_time, lean_check_time, timeout, generation_error) ==
    [attempt_number   |-> attempt_number,
     success          |-> success,
     generation_time  |-> generation_time,
     lean_check_time  |-> lean_check_time,
     total_time       |-> generation_time,
     timeout_occurred |-> timeout,
     generation_error |-> generation_error,
     lean_error       |-> "None"]

\* metrics.py lines 111-152: MetricsTracker.record_attempt.  No caller passes
\* lean_error, which keeps its default None (line 121)
record_attempt(attempt_number, success, generation_time, lean_check_time, timeout, generation_error) ==
    [attempt_number   |-> attempt_number,
     success          |-> success,
     generation_time  |-> generation_time,
     lean_check_time  |-> lean_check_time,
     total_time       |-> generation_time + lean_check_time,
     timeout_occurred |-> timeout,
     generation_error |-> generation_error,
     lean_error       |-> "None"]

\* every tuple check_lean_file can return (Part I)
LeanReturns ==
    {<<TRUE, "stdout", "stderr", FALSE>>,
     <<FALSE, "stdout", "stderr", FALSE>>,
     <<FALSE, "", "Lean check TIMEOUT", TRUE>>,
     <<FALSE, "", "Failed to run Lean", FALSE>>,
     <<FALSE, "", "Unexpected error running Lean", FALSE>>,
     <<FALSE, "", "Failed to write temp file">>}

\* lines 472-474 and 581-582: the attempt loop ends when range(NUM_SAMPLES)
\* is exhausted or a shutdown was requested
AttemptLoopExit ==
    /\ dpc = "loop"
    /\ attempt = NUM_SAMPLES \/ shutdown
    /\ dpc' = "finish"
    /\ UNCHANGED <<supVars, extVars, now, shutdown, attempt, attempts_list,
                   generation_start, gret, solution_block, lean_start,
                   lean_started, wpc, cancelled, reads, racy, workerVars>>

\* lines 480 and 62-111: safe_generate creates the slots and events of this
\* call, starts the worker thread and notes generation_start
SafeGenerateStart ==
    /\ dpc = "loop"
    /\ attempt < NUM_SAMPLES
    /\ ~shutdown
    /\ wpc' = [wpc EXCEPT ![attempt] = "check_start"]
    /\ generation_start' = now
    /\ dpc' = "gen_wait"
    /\ UNCHANGED <<supVars, extVars, now, shutdown, attempt, attempts_list, gret,
                   solution_block, lean_start, lean_started, cancelled, reads,
                   racy, workerVars>>

\* the deadline of done.wait(timeout=MODEL_GENERATION_TIMEOUT) has passed
DeadlineReached == now - generation_start >= MODEL_GENERATION_TIMEOUT

\* lines 121-125: the elapsed time safe_generate reports after done
GenerationTime(c) ==
    IF start_time[c] # NoTime /\ end_time[c] # NoTime
    THEN end_time[c] - start_time[c]
    ELSE now - generation_start

\* the slots lines 121-130 read
SlotsRead(c) ==
    {"start_time", "end_time", "error"}
        \cup (IF error[c] = "None" THEN {"result"} ELSE {})

\* lines 112 and 121-130: done.wait() returned True; read the slots and
\* return (text, None, time) or (None, error, time)
WaitDone ==
    /\ dpc = "gen_wait"
    /\ done[attempt]
    /\ gret' = IF error[attempt] # "None"
               THEN <<"None", error[attempt], GenerationTime(attempt)>>
               ELSE <<result[attempt], "None", GenerationTime(attempt)>>
    /\ reads' = [reads EXCEPT ![attempt] = @ \cup SlotsRead(attempt)]
    /\ racy' = (racy \/ wpc[attempt] \notin {"finally", "exited"})
    /\ dpc' = "after_gen"
    /\ UNCHANGED <<supVars, extVars, now, shutdown, attempt, attempts_list,
                   generation_start, solution_block, lean_start, lean_started,
                   wpc, cancelled, workerVars>>

\* variant: the timeout path joins the worker thread before returning
WaitTimeoutJoin ==
    /\ dpc = "gen_wait"
    /\ DeadlineReached
    /\ wpc[attempt] = "exited"
    /\ cancelled' = [cancelled EXCEPT ![attempt] = TRUE]
    /\ gret' = <<"None", "Model generation TIMEOUT", MODEL_GENERATION_TIMEOUT>>
    /\ dpc' = "after_gen"
    /\ UNCHANGED <<supVars, extVars, now, shutdown, attempt, attempts_list,
                   generation_start, solution_block, lean_start, lean_started,
                   wpc, reads, racy, workerVars>>

\* variant: the timeout path returns whatever result[0] holds at the deadline
WaitTimeoutReadsResult ==
    /\ dpc = "gen_wait"
    /\ ~done[attempt]
    /\ DeadlineReached
    /\ cancelled' = [cancelled EXCEPT ![attempt] = TRUE]
    /\ gret' = IF result[attempt] # "None"
               THEN <<result[attempt], "None", MODEL_GENERATION_TIMEOUT>>
               ELSE <<"None", "Model generation TIMEOUT", MODEL_GENERATION_TIMEOUT>>
    /\ reads' = [reads EXCEPT ![attempt] = @ \cup {"result"}]
    /\ racy' = (racy \/ wpc[attempt] \notin {"finally", "exited"})
    /\ dpc' = "after_gen"
    /\ UNCHANGED <<supVars, extVars, now, shutdown, attempt, attempts_list,
                   generation_start, solution_block, lean_start, lean_started,
                   wpc, workerVars>>

\* lines 112-119: done.wait() returned False at the deadline; set the
\* cancellation flag and return at once, leaving the worker thread alone
WaitTimeout ==
    /\ dpc = "gen_wait"
    /\ ~done[attempt]
    /\ DeadlineReached
    /\ cancelled' = [cancelled EXCEPT ![attempt] = TRUE]
    /\ gret' = <<"None", "Model generation TIMEOUT", MODEL_GENERATION_TIMEOUT>>
    /\ dpc' = "after_gen"
    /\ UNCHANGED <<supVars, extVars, now, shutdown, attempt, attempts_list,
                   generation_start, solution_block, lean_start, lean_started,
                   wpc, reads, racy, workerVars>>

\* variant: the "continue" of line 500 missing, so that the loop body goes on
\* to check_lean_file after recording the generation error
RecordGenErrorNoContinue ==
    /\ dpc = "after_gen"
    /\ gret[2] # "None"
    /\ attempts_list' = Append(attempts_list,
           record_attempt(attempt, FALSE, gret[3], 0, FALSE, gret[2]))
    /\ lean_start' = now
    /\ lean_started' = lean_started \cup {attempt}
    /\ dpc' = "verify"
    /\ UNCHANGED <<supVars, extVars, now, shutdown, attempt, generation_start, gret,
                   solution_block, wpc, cancelled, reads, racy, workerVars>>

\* lines 482-500: gen_error is not None: record a failed attempt, continue
RecordGenError ==
    /\ dpc = "after_gen"
    /\ gret[2] # "None"
    /\ attempts_list' = Append(attempts_list,
           record_attempt(attempt, FALSE, gret[3], 0, FALSE, gret[2]))
    /\ attempt' = attempt + 1
    /\ dpc' = "loop"
    /\ UNCHANGED <<supVars, extVars, now, shutdown, generation_start, gret,
                   solution_block, lean_start, lean_started, wpc, cancelled,
                   reads, racy, workerVars>>

\* variant: a sample without a solution block is skipped without a record
ExtractNoneUnrecorded ==
    /\ dpc = "after_gen"
    /\ gret[2] = "None"
    /\ solution_block' = "None"
    /\ attempt' = attempt + 1
    /\ dpc' = "loop"
    /\ UNCHANGED <<supVars, extVars, now, shutdown, attempts_list, generation_start,
                   gret, lean_start, lean_started, wpc, cancelled, reads, racy,
                   workerVars>>

\* lines 506-527: extract_solution_block found nothing: record, continue
ExtractNone ==
    /\ dpc = "after_gen"
    /\ gret[2] = "None"
    /\ solution_block' = "None"
    /\ attempts_list' = Append(attempts_list,
           record_attempt(attempt, FALSE, gret[3], 0, FALSE,
                          "Could not extract solution block"))
    /\ attempt' = attempt + 1
    /\ dpc' = "loop"
    /\ UNCHANGED <<supVars, extVars, now, shutdown, generation_start, gret, lean_start,
                   lean_started, wpc, cancelled, reads, racy, workerVars>>

\* lines 506-541: a solution block was extracted; check_lean_file is called
\* and the Lean child runs
ExtractAndVerify ==
    /\ dpc = "after_gen"
    /\ gret[2] = "None"
    /\ solution_block' = "block"
    /\ lean_start' = now
    /\ lean_started' = lean_started \cup {attempt}
    /\ dpc' = "verify"
    /\ UNCHANGED <<supVars, extVars, now, shutdown, attempt, attempts_list,
                   generation_start, gret, wpc, cancelled, reads, racy,
                   workerVars>>

\* lines 541-576: check_lean_file returned four fields; record the attempt
VerifyReturn ==
    /\ dpc = "verify"
    /\ \E r \in {t \in LeanReturns : Len(t) = 4} :
          attempts_list' = Append(attempts_list,
              record_attempt(attempt, r[1], gret[3], now - lean_start, r[4],
                             "None"))
    /\ attempt' = attempt + 1
    /\ dpc' = "loop"
    /\ UNCHANGED <<supVars, extVars, now, shutdown, generation_start, gret,
                   solution_block, lean_start, lean_started, wpc, cancelled,
                   reads, racy, workerVars>>

\* line 541: the four-way unpacking of a three-field tuple raises ValueError,
\* which nothing in evaluate_minif2f catches
VerifyUnpackError ==
    /\ dpc = "verify"
    /\ \E r \in {t \in LeanReturns : Len(t) # 4} : dpc' = "crashed"
    /\ UNCHANGED <<supVars, extVars, now, shutdown, attempt, attempts_list,
                   generation_start, gret, solution_block, lean_start,
                   lean_started, wpc, cancelled, reads, racy, workerVars>>

\* lines 581-585: after the loop the problem is handed to finish_problem
FinishProblem ==
    /\ dpc = "finish"
    /\ dpc' = "end"
    /\ UNCHANGED <<supVars, extVars, now, shutdown, attempt, attempts_list,
                   generation_start, gret, solution_block, lean_start,
                   lean_started, wpc, cancelled, reads, racy, workerVars>>

\* variant: the handler also signals the verifier's process group
SignalHandlerKillsGroup ==
    /\ dpc \notin {"end", "crashed"}
    /\ ~shutdown
    /\ shutdown' = TRUE
    /\ sig_log' = Append(sig_log, Signal("SIGTERM", "group", LeanPid))
    /\ alive' = DieAlive(alive \cap pgrp)
    /\ UNCHANGED <<extVars, now, dpc, attempt, attempts_list,
                   generation_start, gret, solution_block, lean_start,
                   lean_started, wpc, cancelled, reads, racy, workerVars,
                   spc, path_exists, sret, timeout_occurred, kt_caller,
                   kt_result, tree_procs, spawned, ppid, pgrp, pipes,
                   ignores_term, rc>>

\* signal_handler.py lines 15-28: SIGINT/SIGTERM sets the shutdown flag
signal_handler ==
    /\ dpc \notin {"end", "crashed"}
    /\ ~shutdown
    /\ shutdown' = TRUE
    /\ UNCHANGED <<supVars, extVars, now, dpc, attempt, attempts_list,
                   generation_start, gret, solution_block, lean_start,
                   lean_started, wpc, cancelled, reads, racy, workerVars>>

\* one second passes; done.wait(timeout) returns no later than its deadline
Tick ==
    /\ now < MaxTime
    /\ dpc \notin {"end", "crashed"}
    /\ ~(dpc = "gen_wait" /\ DeadlineReached)
    /\ now' = now + 1
    /\ UNCHANGED <<supVars, extVars, driverVars, wpc, cancelled, reads, racy, workerVars>>

DriverStep ==
    \/ AttemptLoopExit
    \/ SafeGenerateStart
    \/ WaitDone
    \/ WaitTimeout
    \/ RecordGenError
    \/ ExtractNone
    \/ ExtractAndVerify
    \/ VerifyReturn
    \/ VerifyUnpackError
    \/ FinishProblem

NextGen == DriverStep \/ WorkerStep \/ signal_handler \/ Tick

(***************************************************************************)
(* Part III.  Problem ids, attempts, fractions and the JSON form           *)
(***************************************************************************)
\* the stems of the proofs/*.json files in the order sorted(glob) lists them
\* ("a.json" < "a_b.json" < "b.json"); a stem is a sequence of characters
StemOrder == << <<"a">>, <<"a", "_", "b">>, <<"b">> >>

\* problem ids of the dataset: Path(fpath).stem of its .lean files
ProblemIds == {StemOrder[i] : i \in DOMAIN StemOrder}

\* metrics.py line 200: problem_id.replace("/", "_").replace("\\", "_")
SafeId(problem_id) ==
    [i \in 1..Len(problem_id) |->
        IF problem_id[i] \in {"/", "\\"} THEN "_" ELSE problem_id[i]]

\* the file stems the tracker writes for the dataset's problems
Stems == {SafeId(id) : id \in ProblemIds}

\* sorted(proofs_dir.glob("*.json")) over the files with the stems S
SortedStems(S) == SelectSeq(StemOrder, LAMBDA s : s \in S)

\* the outcome of one attempt of the attempt loop
AttemptKinds == {"ok", "fail", "timeout"}

\* sequences of attempt outcomes of length at most n
KindSeqs(n) == UNION {[1..k -> AttemptKinds] : k \in 0..n}

\* the ProofAttempts the attempt loop records for the outcomes kinds[1],
\* kinds[2], ... (attempt numbers count from 0)
Attempts(kinds) ==
    [i \in 1..Len(kinds) |->
        record_attempt(i - 1, kinds[i] = "ok", 1, 1, kinds[i] = "timeout", "None")]

\* the float n / d, kept as the pair <<n, d>>
Frac(n, d) == <<n, d>>

\* variant: the division without its guard for an empty collection
RatioUnguarded(n, total) == Frac(n, total)

\* the "x / total if total > 0 else 0.0" of compute_metrics and merge_shards
Ratio(n, total) == IF total > 0 THEN Frac(n, total) ELSE Frac(0, 1)

\* equality of two floats n / d
FracEq(x, y) == x[1] * y[2] = y[1] * x[2]

\* min(a, b)
Min(a, b) == IF a <= b THEN a ELSE b

\* json.dump of a bool, and what "value is True" gives on the loaded token
JsonBool(b) == IF b THEN "true" ELSE "false"
IsTrue(token) == token = "true"

\* asdict + json.dump of one ProofAttempt (metrics.py lines 205-209)
JsonAttempt(a) ==
    [attempt_number   |-> a.attempt_number,
     success          |-> JsonBool(a.success),
     generation_time  |-> a.generation_time,
     lean_check_time  |-> a.lean_check_time,
     total_time       |-> a.total_time,
     timeout_occurred |-> JsonBool(a.timeout_occurred),
     generation_error |-> IF a.generation_error = "None" THEN "null"
                          ELSE a.generation_error]

\* asdict + json.dump of one ProblemResult (metrics.py lines 205-209)
JsonProblem(r) ==
    [problem_id            |-> r.problem_id,
     mode                  |-> r.mode,
     dataset               |-> r.dataset,
     attempts              |-> [i \in DOMAIN r.attempts |-> JsonAttempt(r.attempts[i])],
     passed                |-> JsonBool(r.passed),
     first_success_attempt |-> r.first_success_attempt]

(***************************************************************************)
(* Part III.  MetricsTracker (src/metrics.py)                              *)
(***************************************************************************)
\* the directories: 0 .. MaxShards-1 are <root>/shard_0, <root>/shard_1, ...;
\* MergedDir is a directory that is no shard directory
ShardDirs == 0..(MaxShards - 1)
MergedDir == MaxShards
Dirs == ShardDirs \cup {MergedDir}

\* a directory that does not exist, and one that was just created
NoDir == [exists |-> FALSE, proofs |-> <<>>, metrics |-> <<>>]
EmptyDir == [exists |-> TRUE, proofs |-> <<>>, metrics |-> <<>>]

\* output_dir, mode and dataset of the tracker of the evaluation run
TrackerDir == 0
TrackerMode == "cot"
TrackerDataset == "minif2f"

\* open(filepath, "w") + json.dump: the file stem of directory d holds data
WriteProof(f, d, stem, data) ==
    [f EXCEPT ![d].exists = TRUE,
              ![d].proofs = [s \in (DOMAIN @) \cup {stem} |->
                                IF s = stem THEN data ELSE @[s]]]

\* lines 169-173 of finish_problem: the loop over enumerate(attempts) from
\* index i on (counted from 1 here), which breaks at the first success;
\* <<>> for None
RECURSIVE FirstSuccessFrom(_, _)
FirstSuccessFrom(attempts, i) ==
    IF i > Len(attempts) THEN <<>>
    ELSE IF attempts[i].success THEN <<i - 1>>
    ELSE FirstSuccessFrom(attempts, i + 1)

\* variant: the index counted from 1
FirstSuccessOneBased(attempts) ==
    LET first == FirstSuccessFrom(attempts, 1)
    IN  IF first = <<>> THEN first ELSE <<first[1] + 1>>

\* lines 169-173 of finish_problem: first_success
FirstSuccess(attempts) == FirstSuccessFrom(attempts, 1)

\* variant: a problem counts as passed only if its first attempt succeeded
ProblemResultFirstOnly(problem_id, attempts) ==
    [problem_id            |-> problem_id,
     mode                  |-> TrackerMode,
     dataset               |-> TrackerDataset,
     attempts              |-> attempts,
     passed                |-> attempts # <<>> /\ attempts[1].success,
     first_success_attempt |-> FirstSuccess(attempts)]

\* lines 179-190 of finish_problem
ProblemResult(problem_id, attempts) ==
    [problem_id            |-> problem_id,
     mode                  |-> TrackerMode,
     dataset               |-> TrackerDataset,
     attempts              |-> attempts,
     passed                |-> \E i \in DOMAIN attempts : attempts[i].success,
     first_success_attempt |-> FirstSuccess(attempts)]

\* lines 236-238: [a.<field> for r in self.problem_results for a in r.attempts]
RECURSIVE AllTimes(_, _)
AllTimes(rs, field) ==
    IF rs = <<>> THEN <<>>
    ELSE [j \in DOMAIN rs[1].attempts |-> rs[1].attempts[j][field]]
             \o AllTimes(Tail(rs), field)

\* sum(xs)
RECURSIVE SumSeq(_)
SumSeq(xs) == IF xs = <<>> THEN 0 ELSE xs[1] + SumSeq(Tail(xs))

\* sorted(xs), as an insertion sort
RECURSIVE InsertSorted(_, _)
InsertSorted(x, xs) ==
    IF xs = <<>> THEN <<x>>
    ELSE IF x <= xs[1] THEN <<x>> \o xs
    ELSE <<xs[1]>> \o InsertSorted(x, Tail(xs))

RECURSIVE sorted(_)
sorted(xs) == IF xs = <<>> THEN <<>> ELSE InsertSorted(xs[1], sorted(Tail(xs)))

\* lines 240-242: sum(xs) / len(xs) if xs else 0.0
Average(xs) == IF xs # <<>> THEN Frac(SumSeq(xs), Len(xs)) ELSE Frac(0, 1)

\* lines 244-246: sorted(xs)[len(xs) // 2] if xs else 0.0
Median(xs) == IF xs # <<>> THEN sorted(xs)[(Len(xs) \div 2) + 1] ELSE 0

\* variant: one timeout counted per problem, however many attempts timed out
TotalTimeoutsPerProblem(rs) ==
    Cardinality({k \in DOMAIN rs :
        \E j \in DOMAIN rs[k].attempts : rs[k].attempts[j].timeout_occurred})

\* line 231: sum(1 for r in self.problem_results for a in r.attempts
\* if a.timeout_occurred)
TotalTimeouts(rs) ==
    Cardinality({<<i, j>> \in (DOMAIN rs) \X (1..MaxAttempts) :
                    j <= Len(rs[i].attempts)
                    /\ rs[i].attempts[j].timeout_occurred})

\* lines 232-233: sum(1 for r in self.problem_results
\* if any(a.timeout_occurred for a in r.attempts))
ProblemsWithTimeouts(rs) ==
    Cardinality({k \in DOMAIN rs :
        \E j \in DOMAIN rs[k].attempts : rs[k].attempts[j].timeout_occurred})

\* metrics.py lines 211-276: MetricsTracker.compute_metrics
compute_metrics(rs, elapsed) ==
    LET total_problems == Len(rs)
        problems_passed == Cardinality({k \in DOMAIN rs : rs[k].passed})
        first_ok ==
            Cardinality({k \in DOMAIN rs :
                Len(rs[k].attempts) > 0 /\ rs[k].attempts[1].success})
        pass_at_8_count ==
            Cardinality({k \in DOMAIN rs :
                Len(rs[k].attempts) > 0
                /\ \E i \in 1..Min(PassMid, Len(rs[k].attempts)) :
                       rs[k].attempts[i].success})
    IN  [dataset                |-> TrackerDataset,
         mode                   |-> TrackerMode,
         total_problems         |-> total_problems,
         problems_passed        |-> problems_passed,
         problems_failed        |-> total_problems - problems_passed,
         pass_at_1              |-> Ratio(first_ok, total_problems),
         pass_at_8              |-> Ratio(pass_at_8_count, total_problems),
         pass_at_32             |-> Ratio(problems_passed, total_problems),
         total_timeouts         |-> TotalTimeouts(rs),
         problems_with_timeouts |-> ProblemsWithTimeouts(rs),
         avg_generation_time    |-> Average(AllTimes(rs, "generation_time")),
         avg_lean_check_time    |-> Average(AllTimes(rs, "lean_check_time")),
         avg_total_time         |-> Average(AllTimes(rs, "total_time")),
         median_generation_time |-> Median(AllTimes(rs, "generation_time")),
         median_lean_check_time |-> Median(AllTimes(rs, "lean_check_time")),
         median_total_time      |-> Median(AllTimes(rs, "total_time")),
         total_generation_time  |-> SumSeq(AllTimes(rs, "generation_time")),
         total_lean_check_time  |-> SumSeq(AllTimes(rs, "lean_check_time")),
         total_evaluation_time  |-> elapsed,
         problem_results        |-> rs]

\* asdict + json.dump of the EvaluationMetrics (save_metrics, lines 288-293):
\* the fields a reader of a shard's metrics file looks at
JsonMetrics(m) ==
    [mode                  |-> m.mode,
     pass_at_1             |-> m.pass_at_1,
     total_evaluation_time |-> m.total_evaluation_time,
     problem_results       |-> [i \in DOMAIN m.problem_results |->
                                   JsonProblem(m.problem_results[i])]]

\* the attempt lists a tracker is handed
TrackerKinds == {"ok", "fail"}
TrackerLists == {ks \in KindSeqs(MaxAttempts) : \A i \in DOMAIN ks : ks[i] \in TrackerKinds}

\* seconds between the tracker's construction and compute_metrics
EvalTimes == {1, 2}

\* position of a stem in the sorted list of the dataset's files
StemPos(stem) == CHOOSE i \in DOMAIN StemOrder : StemOrder[i] = stem

\* problem ids a caller of the tracker may pass: a file stem, and an id with
\* a path separator, which _save_problem_result sanitises
CallIds == {<<"a", "_", "b">>, <<"a", "/", "b">>}

\* the attempt outcomes of the calls made on the tracker directly
CallLists == KindSeqs(PassMax)

\* metrics.py lines 154-209: finish_problem called with a problem_id that no
\* earlier call had: the result is appended to self.problem_results and
\* _save_problem_result writes proofs/<safe_id>.json, opened with mode "w"
FinishAnyProblem ==
    /\ online = <<>>
    /\ Len(problem_results) < MaxProblems
    /\ \E problem_id \in CallIds, kinds \in CallLists :
        /\ \A i \in DOMAIN problem_results :
               problem_results[i].problem_id # problem_id
        /\ LET r == ProblemResult(problem_id, Attempts(kinds))
           IN  /\ problem_results' = Append(problem_results, r)
               /\ fs' = WriteProof(fs, TrackerDir, SafeId(problem_id), JsonProblem(r))
    /\ UNCHANGED <<supVars, genVars, evalVars, snapVars, online, output_dir, mode, mpc, merged>>

\* metrics.py lines 154-195: finish_problem, called by the problem loop
\* (eval_minif2f.py line 585) once per dataset file, in sorted order
finish_problem ==
    /\ online = <<>>
    /\ Len(problem_results) < MaxProblems
    /\ \E problem_id \in ProblemIds, kinds \in TrackerLists :
        /\ \A i \in DOMAIN problem_results :
               StemPos(problem_results[i].problem_id) < StemPos(problem_id)
        /\ LET r == ProblemResult(problem_id, Attempts(kinds))
           IN  /\ problem_results' = Append(problem_results, r)
               /\ fs' = WriteProof(fs, TrackerDir, SafeId(problem_id), JsonProblem(r))
    /\ UNCHANGED <<supVars, genVars, evalVars, snapVars, online, output_dir, mode, mpc, merged>>

\* eval_minif2f.py lines 605-606: compute_metrics, then save_metrics
\* (metrics.py lines 278-295) writes the snapshot into metrics/
SaveMetrics ==
    /\ online = <<>>
    /\ \E elapsed \in EvalTimes :
        LET m == compute_metrics(problem_results, elapsed)
        IN  /\ online' = m
            /\ fs' = [fs EXCEPT ![TrackerDir].metrics = Append(@, JsonMetrics(m))]
    /\ UNCHANGED <<supVars, genVars, evalVars, snapVars, problem_results, output_dir, mode, mpc, merged>>

(***************************************************************************)
(* Part III.  merge_shards (scripts/merge_shards.py)                       *)
(***************************************************************************)
\* the value None of a merged metrics field
None == <<>>

\* sum(m.get("total_evaluation_time", 0) for m in ms)
RECURSIVE SumEvaluationTime(_)
SumEvaluationTime(ms) ==
    IF ms = <<>> THEN 0
    ELSE Head(ms).total_evaluation_time + SumEvaluationTime(Tail(ms))

\* max(len(p["attempts"]) for p in ps), 0 for no problem
RECURSIVE MaxAttemptsOf(_)
MaxAttemptsOf(ps) ==
    IF ps = <<>> THEN 0
    ELSE LET rest == MaxAttemptsOf(Tail(ps))
             n == Len(Head(ps).attempts)
         IN  IF n >= rest THEN n ELSE rest

\* lines 38-42: output_dir, proofs/ and metrics/ are created if missing
MakeDirs(f, out) == [f EXCEPT ![out].exists = TRUE]

\* line 45: sorted shard_* directories under the root
ShardSeq(f) == SelectSeq([i \in 1..MaxShards |-> i - 1], LAMBDA d : f[d].exists)

\* state of the loop of lines 58-91 before its first iteration
MergeStart(f) ==
    [fs                  |-> f,
     status              |-> "running",
     problem_ids_seen    |-> {},
     all_problem_results |-> <<>>,
     all_metrics         |-> <<>>,
     total_problems      |-> 0,
     total_passed        |-> 0]

\* variant: line 80, "total_problems += 1", missing
CopyProblemUncounted(st, d, stem, out) ==
    IF stem \in st.problem_ids_seen
    THEN st
    ELSE IF d = out
    THEN [st EXCEPT !.problem_ids_seen = @ \cup {stem}, !.status = "raised"]
    ELSE LET problem_data == st.fs[d].proofs[stem]
         IN  [st EXCEPT
                 !.problem_ids_seen = @ \cup {stem},
                 !.fs = WriteProof(@, out, stem, problem_data),
                 !.all_problem_results = Append(@, problem_data),
                 !.total_passed = IF IsTrue(problem_data.passed) THEN @ + 1 ELSE @]

\* lines 65-82: one iteration of "for problem_file in problem_files" for the
\* file stem of shard d; copying a file onto itself raises SameFileError
CopyProblem(st, d, stem, out) ==
    IF stem \in st.problem_ids_seen
    THEN st
    ELSE IF d = out
    THEN [st EXCEPT !.problem_ids_seen = @ \cup {stem}, !.status = "raised"]
    ELSE LET problem_data == st.fs[d].proofs[stem]
         IN  [st EXCEPT
                 !.problem_ids_seen = @ \cup {stem},
                 !.fs = WriteProof(@, out, stem, problem_data),
                 !.all_problem_results = Append(@, problem_data),
                 !.total_problems = @ + 1,
                 !.total_passed = IF IsTrue(problem_data.passed) THEN @ + 1 ELSE @]

\* lines 64-82: the loop over problem_files
RECURSIVE CopyProblems(_, _, _, _)
CopyProblems(st, d, stems, out) ==
    IF stems = <<>> \/ st.status = "raised" THEN st
    ELSE CopyProblems(CopyProblem(st, d, Head(stems), out), d, Tail(stems), out)

\* variant: the FileNotFoundError of load_latest_metrics is not caught
LoadShardMetricsRaising(st, d, md) ==
    IF st.status = "raised" THEN st
    ELSE IF st.fs[d].metrics = <<>> THEN [st EXCEPT !.status = "raised"]
    ELSE LET metrics == st.fs[d].metrics[Len(st.fs[d].metrics)]
         IN  IF md = "None" \/ metrics.mode = md
             THEN [st EXCEPT !.all_metrics = Append(@, metrics)]
             ELSE st

\* lines 23-29 and 85-91: the latest metrics file of shard d, kept if it is of
\* the requested mode; a shard without metrics file is passed over
LoadShardMetrics(st, d, md) ==
    IF st.status = "raised" \/ st.fs[d].metrics = <<>> THEN st
    ELSE LET metrics == st.fs[d].metrics[Len(st.fs[d].metrics)]
         IN  IF md = "None" \/ metrics.mode = md
             THEN [st EXCEPT !.all_metrics = Append(@, metrics)]
             ELSE st

\* lines 58-91: the loop over shard_dirs
RECURSIVE MergeLoop(_, _, _, _)
MergeLoop(st, shards, out, md) ==
    IF shards = <<>> \/ st.status = "raised" THEN st
    ELSE LET d == Head(shards)
             problem_files == SortedStems(DOMAIN st.fs[d].proofs)
             copied == CopyProblems(st, d, problem_files, out)
         IN  MergeLoop(LoadShardMetrics(copied, d, md), Tail(shards), out, md)

\* lines 99-157: the merged metrics dict, recomputed from the problem
\* results ps and the shards' metrics ms
MergedMetrics(ps, ms, total_problems, total_passed, shards_merged) ==
    LET Has(p, n) == \E i \in 1..Min(n, Len(p.attempts)) : IsTrue(p.attempts[i].success)
        pass1 == Cardinality({k \in DOMAIN ps : Has(ps[k], 1)})
        pass8 == Cardinality({k \in DOMAIN ps : Has(ps[k], PassMid)})
        pass_all == Cardinality({k \in DOMAIN ps : Has(ps[k], Len(ps[k].attempts))})
        max_attempts == MaxAttemptsOf(ps)
        num_samples == IF max_attempts > 0 THEN max_attempts ELSE PassMid
    IN  [dataset                |-> "minif2f",
         mode                   |-> IF ps # <<>> THEN ps[1].mode ELSE "noncot",
         total_problems         |-> total_problems,
         problems_passed        |-> total_passed,
         problems_failed        |-> total_problems - total_passed,
         num_samples            |-> num_samples,
         pass_at_1              |-> Ratio(pass1, total_problems),
         pass_at_8              |-> Ratio(pass8, total_problems),
         pass_at_all            |-> Ratio(pass_all, total_problems),
         pass_at_32             |-> IF num_samples >= PassMax /\ total_problems > 0
                                    THEN Frac(pass_all, total_problems) ELSE None,
         total_timeouts         |->
             Cardinality({<<i, j>> \in (DOMAIN ps) \X (1..max_attempts) :
                             j <= Len(ps[i].attempts)
                             /\ IsTrue(ps[i].attempts[j].timeout_occurred)}),
         problems_with_timeouts |->
             Cardinality({k \in DOMAIN ps :
                 \E j \in DOMAIN ps[k].attempts :
                     IsTrue(ps[k].attempts[j].timeout_occurred)}),
         total_evaluation_time  |-> SumEvaluationTime(ms),
         shards_merged          |-> shards_merged,
         problem_results        |-> ps]

\* line 46: "if not shard_dirs"
NoShards(shard_dirs) == shard_dirs = <<>>

\* variant: the check of line 96 missing
NoResultsUnchecked(st) == FALSE

\* line 96: "if not all_problem_results"
NoResults(st) == st.all_problem_results = <<>>

\* lines 32-165: merge_shards(sharded_root, output_dir, mode) on the
\* directories f: how it ends, the directories afterwards, the dict it wrote
merge_shards(f, out, md) ==
    LET made == MakeDirs(f, out)
        shard_dirs == ShardSeq(made)
        st == MergeLoop(MergeStart(made), shard_dirs, out, md)
        merged_metrics == MergedMetrics(st.all_problem_results, st.all_metrics,
                              st.total_problems, st.total_passed, Len(shard_dirs))
    IN  IF NoShards(shard_dirs)
        THEN [status |-> "SystemExit", fs |-> made, merged_metrics |-> None]
        ELSE IF st.status = "raised"
        THEN [status |-> "raised", fs |-> st.fs, merged_metrics |-> None]
        ELSE IF NoResults(st)
        THEN [status |-> "SystemExit", fs |-> st.fs, merged_metrics |-> None]
        ELSE [status |-> "done",
              fs |-> [st.fs EXCEPT ![out].metrics = Append(@, merged_metrics)],
              merged_metrics |-> merged_metrics]

(***************************************************************************)
(* Part III.  aggregate_shards (scripts/aggregate_shards.py)               *)
(***************************************************************************)
\* line 55: metrics.get("problem_results", [])
SnapshotResults(metrics) ==
    IF "problem_results" \in DOMAIN metrics THEN metrics.problem_results ELSE <<>>

\* lines 55-61: the loop over the problem results of one snapshot; a problem
\* id met before ends the run with SystemExit
RECURSIVE AggProblems(_, _)
AggProblems(st, prs) ==
    IF prs = <<>> \/ st.status # "running" THEN st
    ELSE LET pr == Head(prs)
             pid == pr.problem_id
             seen == {st.by_problem[i].problem_id : i \in DOMAIN st.by_problem}
         IN  AggProblems(
                 IF pid = <<>> THEN st
                 ELSE IF pid \in seen THEN [st EXCEPT !.status = "SystemExit"]
                 ELSE [st EXCEPT !.by_problem =
                          Append(@, [problem_id |-> pid, attempts |-> pr.attempts])],
                 Tail(prs))

\* lines 49-61: one shard: load_latest_metrics raises FileNotFoundError, which
\* nothing catches, when the shard has no metrics file; a snapshot of another
\* mode than the one asked for ends the run with SystemExit
AggShard(st, f, d, md) ==
    IF st.status # "running" THEN st
    ELSE IF f[d].metrics = <<>> THEN [st EXCEPT !.status = "raised"]
    ELSE LET metrics == f[d].metrics[Len(f[d].metrics)]
         IN  IF md # "None" /\ metrics.mode # md
             THEN [st EXCEPT !.status = "SystemExit"]
             ELSE AggProblems(st, SnapshotResults(metrics))

\* lines 48-61: the loop over shard_dirs
RECURSIVE AggLoop(_, _, _, _)
AggLoop(st, f, shards, md) ==
    IF shards = <<>> THEN st
    ELSE AggLoop(AggShard(st, f, Head(shards), md), f, Tail(shards), md)

\* lines 34-97: main of aggregate_shards.py on the directories f: how it
\* ends and the counts it prints
aggregate_shards(f, md) ==
    LET shard_dirs == ShardSeq(f)
        st == AggLoop([status |-> "running", by_problem |-> <<>>], f, shard_dirs, md)
        problems == st.by_problem
        total == Len(problems)
        Has(p, n) == \E i \in 1..Min(n, Len(p.attempts)) : IsTrue(p.attempts[i].success)
        aborted(how) == [status |-> how, total |-> 0, pass1 |-> 0, pass8 |-> 0, pass_all |-> 0]
    IN  IF shard_dirs = <<>> THEN aborted("SystemExit")
        ELSE IF st.status # "running" THEN aborted(st.status)
        ELSE IF total = 0 THEN aborted("SystemExit")
        ELSE [status   |-> "done",
              total    |-> total,
              pass1    |-> Cardinality({k \in DOMAIN problems : Has(problems[k], 1)}),
              pass8    |-> Cardinality({k \in DOMAIN problems : Has(problems[k], PassMid)}),
              pass_all |-> Cardinality({k \in DOMAIN problems :
                                           Has(problems[k], Len(problems[k].attempts))})]

\* one run of scripts/merge_shards.py (main, lines 193-215)
MergeShards ==
    /\ mpc = "idle"
    /\ LET run == merge_shards(fs, output_dir, mode)
       IN  /\ mpc' = run.status
           /\ fs' = run.fs
           /\ merged' = run.merged_metrics
    /\ UNCHANGED <<supVars, genVars, evalVars, snapVars, problem_results, online, output_dir, mode>>

\* the state before an evaluation run: the tracker has created its
\* directories (metrics.py lines 89-100), nothing was merged
MrgInit ==
    /\ problem_results = <<>>
    /\ online = <<>>
    /\ fs = [d \in Dirs |-> IF d = TrackerDir THEN EmptyDir ELSE NoDir]
    /\ output_dir = MergedDir
    /\ mode = "None"
    /\ mpc = "idle"
    /\ merged = None

\* the attempt outcomes in the per-problem files shard workers leave behind
ShardLists == {<<>>, <<"ok">>, <<"timeout", "ok">>}

\* the metrics/ directory of a shard: empty, or the snapshot its worker saved
ShardSnapshots ==
    {<<>>,
     <<[mode |-> "noncot", pass_at_1 |-> Frac(0, 1), total_evaluation_time |-> 2]>>}

\* other contents a shard's metrics/ directory could have
OtherSnapshots ==
    ShardSnapshots
    \cup {<<[mode |-> "cot", pass_at_1 |-> Frac(1, 1), total_evaluation_time |-> 1]>>}

\* problem files under the whole root, duplicates included
MaxFiles == Len(StemOrder)

\* the places <<shard, problem id>> where the root holds a problem file
Layouts(E) == {c \in SUBSET (E \X ProblemIds) : Cardinality(c) <= MaxFiles}

\* the root whose shard directories are E, with the attempt outcomes k[cell]
\* in the file of each cell and the metrics files ms[d] in shard d
Root(E, k, ms) ==
    [d \in Dirs |->
        IF d \in E
        THEN [exists  |-> TRUE,
              proofs  |-> [s \in {SafeId(cell[2]) : cell \in {x \in DOMAIN k : x[1] = d}} |->
                  LET id == CHOOSE id \in ProblemIds : SafeId(id) = s /\ <<d, id>> \in DOMAIN k
                  IN  JsonProblem(ProblemResult(id, Attempts(k[<<d, id>>])))],
              metrics |-> ms[d]]
        ELSE NoDir]

\* the arguments of a merge run
MergeModes == {"None", "cot"}

\* the state before a merge: shard workers have left their corpora under
\* the root; output_dir is a directory of its own or one of shard_0, ...
RootInit ==
    /\ problem_results = <<>>
    /\ online = <<>>
    /\ \E E \in SUBSET ShardDirs : \E c \in Layouts(E) :
          \E k \in [c -> ShardLists], ms \in [E -> ShardSnapshots] :
              fs = Root(E, k, ms)
    /\ output_dir \in Dirs
    /\ mode \in MergeModes
    /\ mpc = "idle"
    /\ merged = None

(***************************************************************************)
(* Part IV.  evaluate_putnam (src/eval_putnam.py)                          *)
(***************************************************************************)
\* the tuples check_lean_file returns to the driver: with "lake" on PATH the
\* child runs and Lean accepts or rejects the file, or the temp file cannot
\* be written; without it Popen raises FileNotFoundError.  The timeout and
\* error tuples are recorded like a rejected file (with their own flag and
\* stderr) and are left to Parts I-III
CheckLean(found) ==
    IF found
    THEN {r \in LeanReturns : r[3] \in {"stderr", "Failed to write temp file"}}
    ELSE {r \in LeanReturns : r[3] \in {"Failed to run Lean", "Failed to write temp file"}}

\* record_attempt with the lean_stderr it is given (metrics.py lines 111-152)
AttemptRecord(attempt_number, success, timeout, generation_error, lean_stderr) ==
    record_attempt(attempt_number, success, 1, IF lean_stderr = "None" THEN 0 ELSE 1,
                   timeout, generation_error)
        @@ ("lean_stderr" :> lean_stderr)

\* the generation_error record_attempt is given when an attempt ends before
\* check_lean_file: a generation error or timeout (lines 415-433); a generated
\* text that is rejected (lines 440-518) is recorded the same way, with
\* another text
EarlyErrors == {"Model generation TIMEOUT"}

\* lines 285-300 and 364-375: the locals of evaluate_putnam on entry
EvalLocals ==
    /\ epc = "sanity"
    /\ sanity_warned = FALSE
    /\ problems_done = 0
    /\ p_attempt = 0
    /\ p_attempts_list = <<>>
    /\ finished = <<>>

EvalInit == lake_found = TRUE /\ EvalLocals

\* lines 341-353: the Lean sanity check; a failed check prints a warning and
\* the evaluation continues
SanityCheck ==
    /\ epc = "sanity"
    /\ \E r \in CheckLean(lake_found) :
          IF Len(r) = 4
          THEN /\ sanity_warned' = ~r[1]
               /\ epc' = "problems"
          ELSE /\ epc' = "crashed"
               /\ UNCHANGED sanity_warned
    /\ UNCHANGED <<supVars, genVars, mrgVars, snapVars, lake_found, problems_done, p_attempt,
                   p_attempts_list, finished>>

\* variant: the problem loop without its poll of the shutdown flag
NextProblemIgnoringShutdown ==
    /\ epc = "problems"
    /\ IF problems_done = MaxProblems
       THEN epc' = "metrics" /\ UNCHANGED <<p_attempt, p_attempts_list>>
       ELSE epc' = "attempts" /\ p_attempt' = 0 /\ p_attempts_list' = <<>>
    /\ UNCHANGED <<supVars, genVars, mrgVars, snapVars, lake_found, sanity_warned,
                   problems_done, finished>>

\* lines 380-403: the next problem file, or the end of the problem loop
NextProblem ==
    /\ epc = "problems"
    /\ IF shutdown \/ problems_done = MaxProblems
       THEN epc' = "metrics" /\ UNCHANGED <<p_attempt, p_attempts_list>>
       ELSE epc' = "attempts" /\ p_attempt' = 0 /\ p_attempts_list' = <<>>
    /\ UNCHANGED <<supVars, genVars, mrgVars, snapVars, lake_found, sanity_warned,
                   problems_done, finished>>

\* lines 405-407 and 579-580: the attempt loop ends
AttemptsEnd ==
    /\ epc = "attempts"
    /\ shutdown \/ p_attempt = NUM_SAMPLES
    /\ epc' = "finish"
    /\ UNCHANGED <<supVars, genVars, mrgVars, snapVars, lake_found, sanity_warned,
                   problems_done, p_attempt, p_attempts_list, finished>>

\* lines 405-412: the shutdown flag is polled at the top of the loop body;
\* with the flag clear the attempt starts with its safe_generate call
AttemptStart ==
    /\ epc = "attempts"
    /\ ~shutdown /\ p_attempt < NUM_SAMPLES
    /\ epc' = "in_attempt"
    /\ UNCHANGED <<supVars, genVars, mrgVars, snapVars, lake_found, sanity_warned,
                   problems_done, p_attempt, p_attempts_list, finished>>

\* lines 412-518: an attempt that is recorded before check_lean_file is called
AttemptEarly ==
    /\ epc = "in_attempt"
    /\ \E e \in EarlyErrors :
          p_attempts_list' = Append(p_attempts_list,
              AttemptRecord(p_attempt, FALSE, FALSE, e, "None"))
    /\ p_attempt' = p_attempt + 1
    /\ epc' = "attempts"
    /\ UNCHANGED <<supVars, genVars, mrgVars, snapVars, lake_found, sanity_warned,
                   problems_done, finished>>

\* lines 520-576: check_lean_file is called and its four fields are recorded;
\* a tuple of three fields makes the unpacking of line 537 raise
AttemptVerify ==
    /\ epc = "in_attempt"
    /\ \E r \in CheckLean(lake_found) :
          IF Len(r) = 4
          THEN /\ p_attempts_list' = Append(p_attempts_list,
                      AttemptRecord(p_attempt, r[1], r[4], "None", r[3]))
               /\ p_attempt' = p_attempt + 1
               /\ epc' = "attempts"
          ELSE /\ epc' = "crashed"
               /\ UNCHANGED <<p_attempt, p_attempts_list>>
    /\ UNCHANGED <<supVars, genVars, mrgVars, snapVars, lake_found, sanity_warned,
                   problems_done, finished>>

\* the problem_id of the k-th problem file of the sorted dataset
ProblemIdAt(k) == StemOrder[k]

\* lines 582-590: finish_problem(problem_id, f, attempts_list), which appends
\* the ProblemResult to the tracker and writes its file (metrics.py lines
\* 154-209)
PutnamFinishProblem ==
    /\ epc = "finish"
    /\ finished' = Append(finished, p_attempts_list)
    /\ LET r == ProblemResult(ProblemIdAt(problems_done + 1), p_attempts_list)
       IN  /\ problem_results' = Append(problem_results, r)
           /\ fs' = WriteProof(fs, TrackerDir, SafeId(r.problem_id), JsonProblem(r))
    /\ problems_done' = problems_done + 1
    /\ epc' = "problems"
    /\ UNCHANGED <<supVars, genVars, snapVars, online, output_dir, mode, mpc, merged,
                   lake_found, sanity_warned, p_attempt, p_attempts_list>>

\* lines 602-634: compute_metrics, save_metrics (metrics.py lines 211-295),
\* summary, exit
PutnamMetrics ==
    /\ epc = "metrics"
    /\ \E elapsed \in EvalTimes :
        LET m == compute_metrics(problem_results, elapsed)
        IN  /\ online' = m
            /\ fs' = [fs EXCEPT ![TrackerDir].metrics = Append(@, JsonMetrics(m))]
    /\ epc' = "end"
    /\ UNCHANGED <<supVars, genVars, snapVars, problem_results, output_dir, mode, mpc,
                   merged, lake_found, sanity_warned, problems_done, p_attempt,
                   p_attempts_list, finished>>

(***************************************************************************)
(* Part V.  The metrics/ directory of one output_dir over several runs     *)
(* (save_metrics of src/metrics.py, load_latest_metrics of its readers)    *)
(***************************************************************************)
\* the save_metrics calls and the seconds of wall clock that are followed
MaxSaves == 3
MaxClock == 2

\* the modes of the runs that write into the directory (--mode)
RunModes == {"cot", "noncot"}

\* the characters of self.dataset and of self.mode
DatasetChars == <<"m", "i", "n", "i", "f", "2", "f">>
ModeChars(m) == IF m = "cot" THEN <<"c", "o", "t">> ELSE <<"n", "o", "n", "c", "o", "t">>

\* strftime("%Y%m%d_%H%M%S"): a fixed-width decimal rendering of the second;
\* two digits stand for the fourteen
Digits == <<"0", "1", "2", "3", "4", "5", "6", "7", "8", "9">>
Stamp(t) == <<Digits[((t \div 10) % 10) + 1], Digits[(t % 10) + 1]>>

\* metrics.py line 285: f"{self.dataset}_{self.mode}_{timestamp}.json", the
\* stem of the file
MetricsFileName(dataset, m, t) == dataset \o <<"_">> \o ModeChars(m) \o <<"_">> \o Stamp(t)

\* the code point of a character of a file name
Ord(c) ==
    CASE c = "_" -> 95
      [] c = "c" -> 99
      [] c = "f" -> 102
      [] c = "i" -> 105
      [] c = "m" -> 109
      [] c = "n" -> 110
      [] c = "o" -> 111
      [] c = "t" -> 116
      [] OTHER   -> 47 + (CHOOSE i \in DOMAIN Digits : Digits[i] = c)

\* the order of sorted() on paths of one directory: a < b, character by
\* character
RECURSIVE PathLess(_, _)
PathLess(a, b) ==
    IF b = <<>> THEN FALSE
    ELSE IF a = <<>> THEN TRUE
    ELSE IF Head(a) = Head(b) THEN PathLess(Tail(a), Tail(b))
    ELSE Ord(Head(a)) < Ord(Head(b))

\* merge_shards.py lines 25-28, inspect_results.py lines 45 and 55:
\* sorted(metrics_dir.glob("*.json"))[-1], the greatest file name
LatestFile(files) ==
    CHOOSE f \in DOMAIN files : \A g \in DOMAIN files : g = f \/ PathLess(g, f)

\* load_latest_metrics: the content of that file
load_latest_metrics(files) == files[LatestFile(files)]

\* metrics.py lines 89-100: the directory as the first tracker creates it
SnapInit ==
    /\ wall_clock = 0
    /\ saved = 0
    /\ metrics_files = <<>>

\* metrics.py lines 278-295: save_metrics of a run of mode m into
\* output_dir/metrics (data/results/minif2f unless --output-dir is given,
\* eval_minif2f.py line 361); open(filepath, "w") replaces a file of this name
save_metrics ==
    /\ saved < MaxSaves
    /\ \E m \in RunModes :
        LET filename == MetricsFileName(DatasetChars, m, wall_clock)
        IN  metrics_files' = [f \in (DOMAIN metrics_files) \cup {filename} |->
                                IF f = filename THEN [mode |-> m, call |-> saved + 1]
                                ELSE metrics_files[f]]
    /\ saved' = saved + 1
    /\ UNCHANGED <<supVars, genVars, mrgVars, evalVars, wall_clock>>

\* a second of wall clock passes
ClockTick ==
    /\ wall_clock < MaxClock
    /\ wall_clock' = wall_clock + 1
    /\ UNCHANGED <<supVars, genVars, mrgVars, evalVars, saved, metrics_files>>

(***************************************************************************)
(* Part II.  The end of an evaluation run (eval_minif2f.py lines 604-638)  *)
(***************************************************************************)
\* eval_minif2f.py lines 604-638: after the problem loop compute_metrics and
\* save_metrics, then sys.exit(0) on a shutdown request or the return from
\* evaluate_minif2f: either way the main thread ends
ExitAfterMetrics ==
    /\ dpc = "end"
    /\ online = <<>>
    /\ \E elapsed \in EvalTimes :
        LET m == compute_metrics(problem_results, elapsed)
        IN  /\ online' = m
            /\ fs' = [fs EXCEPT ![TrackerDir].metrics = Append(@, JsonMetrics(m))]
    /\ dpc' = "exiting"
    /\ UNCHANGED <<supVars, evalVars, snapVars, problem_results, output_dir, mode,
                   mpc, merged, now, shutdown, attempt, attempts_list,
                   generation_start, gret, solution_block, lean_start,
                   lean_started, wpc, cancelled, reads, racy, workerVars>>

\* eval_minif2f.py line 108, threading.Thread(..., daemon=False): when the
\* main thread has ended the interpreter joins every non-daemon thread
\* before the process exits
InterpreterExit ==
    /\ dpc = "exiting"
    /\ \A c \in Calls : wpc[c] \notin WorkerRunning
    /\ dpc' = "exited"
    /\ UNCHANGED <<supVars, extVars, now, shutdown, attempt, attempts_list,
                   generation_start, gret, solution_block, lean_start,
                   lean_started, wpc, cancelled, reads, racy, workerVars>>

\* the steps of a worker thread other than the return of model.generate
WorkerProgress(c) ==
    \/ WorkerCheckStart(c)
    \/ WorkerTokenize(c)
    \/ WorkerPublish(c)
    \/ WorkerWriteEnd(c)
    \/ WorkerExcept(c)
    \/ WorkerFinally(c)

NextExit == NextGen \/ ExitAfterMetrics \/ InterpreterExit

(***************************************************************************)
(* Specifications                                                          *)
(***************************************************************************)
Init == SupInit /\ GenInit /\ MrgInit /\ EvalInit /\ SnapInit

\* the steps of check_lean_file itself
SupStep ==
    \/ CreateTemp
    \/ WriteTemp
    \/ PopenOk
    \/ PopenNotFound
    \/ PopenError
    \/ CommunicateReturn
    \/ CommunicateTimeout
    \/ CommunicateError
    \/ KillPg
    \/ KillTreeTerminate
    \/ KillTreeWaitKill
    \/ KillTreeFails
    \/ ProcKill
    \/ ProcWaitReturn

\* the steps of the supervised process tree
TreeStep ==
    \/ Fork
    \/ LeaveGroup
    \/ ClosePipes
    \/ ProcExit

\* the steps the interpreter takes by itself once they are possible: every
\* step of check_lean_file except an exception out of communicate(), which
\* may or may not happen
SupProgress ==
    \/ CreateTemp
    \/ WriteTemp
    \/ PopenOk \/ PopenNotFound \/ PopenError
    \/ CommunicateReturn
    \/ CommunicateTimeout
    \/ KillPg
    \/ KillTreeTerminate
    \/ KillTreeWaitKill
    \/ ProcKill
    \/ ProcWaitReturn

\* eval_minif2f.py lines 541-568: the driver unpacks the four fields that
\* check_lean_file returned and records the attempt with them
RecordVerified ==
    /\ spc = "returned"
    /\ Len(sret) = 4
    /\ attempts_list = <<>>
    /\ attempts_list' = <<record_attempt(attempt, sret[1], 0, 0, sret[4], "None")>>
    /\ UNCHANGED <<supVars, extVars, now, shutdown, dpc, attempt,
                   generation_start, gret, solution_block, lean_start, wpc,
                   result, error, start_time, end_time, done, cancelled,
                   writes, reads, racy, wraised, lean_started>>

NextSup == SupStep \/ TreeStep \/ RecordVerified

SpecSup == Init /\ [][NextSup]_vars

SpecGen == Init /\ [][NextGen]_vars

\* check_lean_file called by a driver that receives SIGINT or SIGTERM while
\* the call is in progress
NextSupShutdown ==
    \/ NextSup
    \/ (spc \notin {"returned", "raised"} /\ signal_handler)

SpecSupShutdown == Init /\ [][NextSupShutdown]_vars

\* check_lean_file is sequential code that the interpreter keeps running;
\* nothing is assumed about the child's tree: it may never exit
FairSpecSup == SpecSup /\ WF_vars(SupProgress)

SupReturned == spc \in {"returned", "raised"}

\* one evaluation run's tracker, then a merge over the root it wrote into
NextMetrics ==
    \/ finish_problem
    \/ SaveMetrics
    \/ (online # <<>> /\ MergeShards)

SpecMetrics == Init /\ [][NextMetrics]_vars

\* a tracker whose finish_problem is called with pairwise distinct ids and
\* whose metrics are then computed and saved
NextTracker == FinishAnyProblem \/ SaveMetrics

SpecTracker == Init /\ [][NextTracker]_vars

\* a merge over a root that shard workers have filled
MergeInit == SupInit /\ GenInit /\ RootInit /\ EvalInit /\ SnapInit

NextMerge == MergeShards

SpecMerge == MergeInit /\ [][NextMerge]_vars

\* an evaluation run of evaluate_putnam on a machine that has or lacks "lake"
EvalStart ==
    /\ SupInit /\ GenInit /\ MrgInit /\ SnapInit
    /\ lake_found \in BOOLEAN
    /\ EvalLocals

NextEval ==
    \/ SanityCheck
    \/ NextProblem
    \/ AttemptsEnd
    \/ AttemptStart
    \/ AttemptEarly
    \/ AttemptVerify
    \/ PutnamFinishProblem
    \/ PutnamMetrics
    \/ (epc \notin {"end", "crashed"} /\ signal_handler)

SpecEval == EvalStart /\ [][NextEval]_vars

\* an evaluation run up to the exit of its process
SpecExit == Init /\ [][NextExit]_vars

\* the same with every thread scheduled and the clock running; nothing makes
\* model.generate return, so WorkerGenerate is under no fairness condition
FairSpecExit ==
    /\ SpecExit
    /\ WF_vars(DriverStep)
    /\ WF_vars(Tick)
    /\ WF_vars(ExitAfterMetrics)
    /\ WF_vars(InterpreterExit)
    /\ \A c \in Calls : WF_vars(WorkerProgress(c))

\* runs that save their metrics into one output_dir, one after another
NextSnap == save_metrics \/ ClockTick

SpecSnap == Init /\ [][NextSnap]_vars

(***************************************************************************)
(* Part I.  Properties of the Process Supervisor                           *)
(***************************************************************************)
\* the call returned the timeout tuple (..., timeout_occurred = True)
ReturnedTimeout == spc = "returned" /\ Len(sret) = 4 /\ sret[4] = TRUE

\* C1: whenever check_lean_file returns with timeout_occurred = True, no
\* process of the tree it spawned is still running (direct child, group
\* member, or descendant that left the group or was re-parented)
C1_NoProcessSurvivesTimeout == ReturnedTimeout => (spawned \cap alive = {})

\* C2: after check_lean_file returns (or raises), the temporary input file
\* no longer exists, on every exit path
C2_TempFileRemoved == SupReturned => ~path_exists

\* C3: whatever the exit path, the value check_lean_file returns has the four
\* fields (success, stdout, stderr, timeout_occurred) the driver unpacks
C3_FourFieldOutcome == spc = "returned" => Len(sret) = 4

\* C4: every invocation of check_lean_file eventually returns, even if the
\* child never exits on its own and a process of the tree ignores SIGTERM
C4_EventuallyReturns == <>SupReturned

\* C4 witness: a call has returned although the child had to be killed and a
\* process of its tree ignores the termination signal
C4_Witness ==
    /\ spc = "returned"
    /\ timeout_occurred
    /\ rc = <<-9>>
    /\ ignores_term # {}

\* C5: in every timeout trace a termination signal to the whole process
\* group precedes any forced kill
C5_TermBeforeKill ==
    timeout_occurred =>
        \A i \in 1..Len(sig_log) :
            sig_log[i].sig = "SIGKILL" =>
                \E j \in 1..(i - 1) :
                    sig_log[j].sig = "SIGTERM" /\ sig_log[j].to = "group"

(***************************************************************************)
(* Part II.  Properties of the Bounded Task Executor and the attempt loop  *)
(***************************************************************************)
\* safe_generate has just returned gret for the current attempt
GenReturned == dpc = "after_gen"

C7_TimeoutDetaches ==
    /\ []((dpc = "gen_wait" /\ ~done[attempt] /\ DeadlineReached)
            => ENABLED WaitTimeout)
    /\ [][(dpc = "gen_wait" /\ dpc' = "after_gen" /\ ~done[attempt])
            => (cancelled'[attempt] /\ wpc' = wpc /\ done' = done
                /\ now' = now)]_vars

\* C7 witness: safe_generate has returned the timeout outcome while its
\* worker is still inside model.generate
C7_Witness ==
    /\ GenReturned
    /\ cancelled[attempt]
    /\ wpc[attempt] = "generate"

\* C8: each slot is written at most once, every write precedes done.set(),
\* the caller reads slots only after it observed done, and on the timeout
\* path it reads none: no read is concurrent with or precedes a write
C8_NoSlotRace ==
    /\ \A c \in Calls : \A sl \in Slots : writes[c][sl] <= 1
    /\ ~racy
    /\ \A c \in Calls : reads[c] # {} => done[c]
    /\ \A c \in Calls : cancelled[c] => reads[c] = {}

\* C8 witness: the caller has read the slots of one call, and the worker of a
\* timed-out call has written its end_time after the caller had left
C8_Witness ==
    /\ \E c \in Calls : "result" \in reads[c] /\ writes[c]["result"] = 1
    /\ \E c \in Calls : cancelled[c] /\ writes[c]["end_time"] = 1

\* C9: at most one generation worker is inside the model call at any time
C9_OneGenerationAtATime ==
    Cardinality({c \in Calls : wpc[c] = "generate"}) <= 1

\* C10: the verifier is started only after safe_generate returned, for the
\* same attempt, a text from which a solution was extracted; an attempt whose
\* generation timed out or errored never starts a verifier, and the worker
\* and the verifier of one attempt never run at the same time
C10_VerifyAfterGenerate ==
    /\ dpc = "verify" =>
          /\ gret[1] # "None"
          /\ gret[2] = "None"
          /\ solution_block # "None"
          /\ attempt \in lean_started
          /\ wpc[attempt] \notin WorkerRunning
    /\ \A c \in lean_started :
          done[c] /\ ~cancelled[c] /\ ~wraised[c] /\ result[c] = "text"

\* C10 witness: the verifier of the second attempt runs after the first
\* attempt's generation timed out without a verifier
C10_Witness ==
    /\ dpc = "verify"
    /\ attempt = 1
    /\ cancelled[0]
    /\ lean_started = {1}

\* the attempts recorded so far in the evaluation run
RecordedAttempts ==
    {p_attempts_list[i] : i \in DOMAIN p_attempts_list}
    \cup UNION {{finished[k][i] : i \in DOMAIN finished[k]} : k \in DOMAIN finished}

\* C19: when the verifier command cannot be launched, the driver aborts the
\* evaluation as a fatal setup error before any attempt is recorded; the
\* launch failure is never recorded as a per-attempt verification failure
C19_LaunchFailureIsFatal ==
    ~lake_found => RecordedAttempts = {}

\* check_lean_file returned from the handler of lines 214-221 with a child
\* that had been spawned
ReturnedUnexpected ==
    /\ spc = "returned"
    /\ sret[3] = "Unexpected error running Lean"
    /\ LeanPid \in spawned

\* C20: after an unexpected exception in check_lean_file with the child
\* spawned, kill_process_tree has been called on the child before
\* check_lean_file returns, a failure of that cleanup is swallowed (the
\* error tuple is returned all the same), and nothing is raised
C20_CleanupOnError ==
    /\ ReturnedUnexpected => kt_result \in {"True", "False"}
    /\ spc = "raised" => LeanPid \notin spawned

\* C20 witness: the error tuple was returned after kill_process_tree failed
\* (returned False) and left a process of the tree running
C20_Witness ==
    /\ ReturnedUnexpected
    /\ kt_result = "False"
    /\ alive # {}

\* C18: every attempt iteration the driver starts ends with exactly one
\* Attempt appended to the problem's list and control back in the loop; no
\* per-attempt failure propagates out of the evaluation loop
C18_LoopExceptionSafe ==
    /\ dpc # "crashed"
    /\ dpc = "loop" => Len(attempts_list) = attempt

(***************************************************************************)
(* Part III.  Properties of the tracker and of the merge                   *)
(***************************************************************************)
\* the problem files of the shard directories of f, as <<shard, stem>>
ShardCells(f) ==
    {<<d, s>> \in ShardDirs \X Stems : f[d].exists /\ s \in DOMAIN f[d].proofs}

\* some problem_id is held by two shards of f
HasDuplicate(f) ==
    \E x \in ShardCells(f), y \in ShardCells(f) :
        /\ x[1] # y[1]
        /\ f[x[1]].proofs[x[2]].problem_id = f[y[1]].proofs[y[2]].problem_id

\* C11: whenever a problem_id occurs in more than one shard, merge_shards
\* does not complete: it never copies the files and writes merged metrics
\* with one of the duplicate entries dropped
C11_DuplicateIsFatal ==
    (output_dir = MergedDir /\ HasDuplicate(fs)) => mpc # "done"

\* two values of a metrics field, None included, are equal
ValEq(x, y) == IF x = None \/ y = None THEN x = y ELSE FracEq(x, y)

\* C12: the pass_at_1, pass_at_8 and pass_at_32 that compute_metrics reported
\* online equal the same-named values merge_shards recomputed from the
\* per-problem files the tracker persisted
C12_OnlineEqualsMerged ==
    (online # <<>> /\ mpc = "done") =>
        /\ ValEq(online.pass_at_1, merged.pass_at_1)
        /\ ValEq(online.pass_at_8, merged.pass_at_8)
        /\ ValEq(online.pass_at_32, merged.pass_at_32)

\* number of the results rs with a successful attempt among the first K
PassedWithin(rs, K) ==
    Cardinality({i \in DOMAIN rs :
        \E j \in DOMAIN rs[i].attempts : j <= K /\ rs[i].attempts[j].success})

\* C13: for each K in {1, 8, 32}, compute_metrics reports as pass_at_K the
\* fraction of all held ProblemResults with a successful attempt among their
\* first K attempts, whatever the length of the attempt lists
C13_PassAtKFirstK ==
    (online # <<>> /\ problem_results # <<>>) =>
        /\ FracEq(online.pass_at_1,
                  Frac(PassedWithin(problem_results, 1), Len(problem_results)))
        /\ FracEq(online.pass_at_8,
                  Frac(PassedWithin(problem_results, PassMid), Len(problem_results)))
        /\ FracEq(online.pass_at_32,
                  Frac(PassedWithin(problem_results, PassMax), Len(problem_results)))

\* no problem_id is held by two shards of f, and the output is a directory
\* of its own
DisjointShards(f) == output_dir = MergedDir /\ ~HasDuplicate(f)

\* the problem files of the shards whose first attempt succeeded
FirstAttemptOk(f) ==
    {x \in ShardCells(f) :
        LET attempts == f[x[1]].proofs[x[2]].attempts
        IN  attempts # <<>> /\ attempts[1].success = "true"}

\* C14: merging shards with disjoint problem_id sets, of sizes m, n, ...,
\* yields exactly m+n+... problem files, total_problems = m+n+... = length
\* of problem_results with pairwise distinct problem_id, and pass_at_1 =
\* (problems of the union whose first attempt succeeded) / (m+n+...)
C14_DisjointMerge ==
    (mpc # "idle" /\ DisjointShards(fs) /\ ShardCells(fs) # {}) =>
        LET total == Cardinality(ShardCells(fs))
        IN  /\ mpc = "done"
            /\ Cardinality(DOMAIN fs[MergedDir].proofs) = total
            /\ merged.total_problems = total
            /\ Len(merged.problem_results) = total
            /\ \A i, j \in DOMAIN merged.problem_results :
                   merged.problem_results[i].problem_id
                       = merged.problem_results[j].problem_id => i = j
            /\ FracEq(merged.pass_at_1,
                      Frac(Cardinality(FirstAttemptOk(fs)), total))

\* the pass_at_1 of shard d alone, as <<numerator, denominator>>
ShardPass1(f, d) ==
    Frac(Cardinality({x \in FirstAttemptOk(f) : x[1] = d}),
         Cardinality({x \in ShardCells(f) : x[1] = d}))

\* C14 witness: shard_0 holds one problem and shard_1 two, disjoint, and the
\* merged pass_at_1 (1/3) is not the average (1/2) of the shards' 1/1 and 0/2
C14_Witness ==
    /\ mpc = "done"
    /\ DisjointShards(fs)
    /\ Cardinality({x \in ShardCells(fs) : x[1] = 0}) = 1
    /\ Cardinality({x \in ShardCells(fs) : x[1] = 1}) = 2
    /\ ShardPass1(fs, 0) = Frac(1, 1)
    /\ ShardPass1(fs, 1) = Frac(0, 2)
    /\ merged.pass_at_1 = Frac(1, 3)

\* the shard directories of the root f
ShardsOf(f) == {d \in ShardDirs : f[d].exists}

\* the root of f with the metrics files of its shards replaced by ms, before
\* any merge has written to the directory MergedDir
WithShardMetrics(f, ms) ==
    [d \in Dirs |->
        IF d \in ShardsOf(f) THEN [f[d] EXCEPT !.metrics = ms[d]] ELSE NoDir]

\* the fields of a merged metrics dict other than total_evaluation_time
SameButEvaluationTime(x, y) ==
    /\ x.problem_results = y.problem_results
    /\ x.dataset = y.dataset /\ x.mode = y.mode
    /\ x.total_problems = y.total_problems
    /\ x.problems_passed = y.problems_passed
    /\ x.problems_failed = y.problems_failed
    /\ x.num_samples = y.num_samples
    /\ x.pass_at_1 = y.pass_at_1
    /\ x.pass_at_8 = y.pass_at_8
    /\ x.pass_at_all = y.pass_at_all
    /\ x.pass_at_32 = y.pass_at_32
    /\ x.total_timeouts = y.total_timeouts
    /\ x.problems_with_timeouts = y.problems_with_timeouts
    /\ x.shards_merged = y.shards_merged

\* C15: a merge over a root with the same per-problem files but other shard
\* metrics files (other pass_at_1, other mode, or none at all) completes too
\* and produces the same problem set and the same Pass@K, count and timeout
\* fields; only total_evaluation_time may differ
C15_ShardMetricsOnlyTime ==
    (mpc = "done" /\ output_dir = MergedDir) =>
        \A ms \in [ShardsOf(fs) -> OtherSnapshots] :
            LET other == merge_shards(WithShardMetrics(fs, ms), output_dir, mode)
            IN  /\ other.status = "done"
                /\ SameButEvaluationTime(other.merged_metrics, merged)

\* C15 witness: a completed merge of two shards with problem files, one
\* without metrics file and one whose snapshot has another pass_at_1 than the
\* merged metrics, which another choice of metrics files gives another
\* total_evaluation_time
C15_Witness ==
    /\ mpc = "done" /\ output_dir = MergedDir
    /\ \E d, e \in ShardDirs :
        /\ fs[d].exists /\ fs[d].metrics = <<>> /\ DOMAIN fs[d].proofs # {}
        /\ fs[e].exists /\ fs[e].metrics # <<>> /\ DOMAIN fs[e].proofs # {}
        /\ ~FracEq(fs[e].metrics[1].pass_at_1, merged.pass_at_1)
    /\ \E ms \in [ShardsOf(fs) -> OtherSnapshots] :
        merge_shards(WithShardMetrics(fs, ms), output_dir, mode)
            .merged_metrics.total_evaluation_time # merged.total_evaluation_time

\* the shard directories of f hold no problem file (there may be no shard
\* directory at all)
NoProblemFiles(f) == ShardCells(f) = {}

\* C16: when the root has no shard directory, or its shard directories hold
\* no problem file, merge_shards ends in a fatal error and writes no merged
\* metrics snapshot
C16_EmptyMergeIsFatal ==
    [][(mpc = "idle" /\ mpc' # "idle" /\ NoProblemFiles(fs)) =>
          /\ mpc' = "SystemExit"
          /\ merged' = None
          /\ \A d \in Dirs : fs'[d].metrics = fs[d].metrics]_vars

\* C16 witness: the merge ended fatally over a root with shard directories
\* but no problem file, and the output directory holds no metrics file
C16_Witness ==
    /\ mpc = "SystemExit"
    /\ \E d \in ShardDirs : fs[d].exists /\ d # output_dir
    /\ NoProblemFiles(fs)
    /\ fs[output_dir].exists /\ fs[output_dir].metrics = <<>>

\* C17: merge_shards never creates, modifies or deletes a file under a shard
\* directory, whatever the root and the output directory are
C17_ShardsReadOnly ==
    [][\A d \in ShardDirs : fs[d].exists => fs'[d] = fs[d]]_vars

(***************************************************************************)
(* Properties of the recorded attempts                                     *)
(***************************************************************************)
\* the attempts recorded so far
AttemptsSoFar == {attempts_list[i] : i \in DOMAIN attempts_list}

C22_AttemptNumbersInOrder ==
    \A i \in DOMAIN attempts_list : attempts_list[i].attempt_number = i - 1

\* a problem handed to finish_problem after a shutdown request cut its
\* attempt loop short
C22_Witness ==
    /\ dpc = "end"
    /\ shutdown
    /\ attempts_list # <<>>
    /\ Len(attempts_list) < NUM_SAMPLES

(***************************************************************************)
(* Part III.  Properties of the tracker                                    *)
(***************************************************************************)
\* the success flags of an attempt list
Successes(attempts) == [i \in DOMAIN attempts |-> attempts[i].success]

\* C23: in every ProblemResult that finish_problem built, passed is true iff
\* some attempt succeeded, and first_success_attempt is the least index
\* (from 0) of a successful attempt, None iff passed is false; so
\* [fail, success, fail] gives passed and first_success_attempt = 1, and the
\* empty list gives not passed and None
C23_PassedAndFirstSuccess ==
    \A k \in DOMAIN problem_results :
        LET r == problem_results[k]
            ok == {i \in DOMAIN r.attempts : r.attempts[i].success}
        IN  /\ r.passed <=> ok # {}
            /\ r.first_success_attempt = None <=> ~r.passed
            /\ r.passed =>
                   /\ Len(r.first_success_attempt) = 1
                   /\ r.first_success_attempt[1] + 1 \in ok
                   /\ \A i \in ok : r.first_success_attempt[1] + 1 <= i
            /\ Successes(r.attempts) = <<FALSE, TRUE, FALSE>> =>
                   (r.passed /\ r.first_success_attempt = <<1>>)
            /\ r.attempts = <<>> =>
                   (~r.passed /\ r.first_success_attempt = None)

\* finish_problem was called with [fail, success, fail] and with the empty
\* list
C23_Witness ==
    /\ \E k \in DOMAIN problem_results :
           Successes(problem_results[k].attempts) = <<FALSE, TRUE, FALSE>>
    /\ \E k \in DOMAIN problem_results : problem_results[k].attempts = <<>>

\* the files of the tracker's proofs directory
ProofFiles == fs[TrackerDir].proofs

\* C24: after finish_problem calls with pairwise distinct problem_ids the
\* in-memory collection holds one ProblemResult per call, with pairwise
\* distinct ids, and the proofs directory holds exactly one file per finished
\* problem, which holds that problem's result (no other problem's result has
\* overwritten it)
C24_OneFilePerProblem ==
    /\ \A i, j \in DOMAIN problem_results :
           problem_results[i].problem_id = problem_results[j].problem_id => i = j
    /\ Cardinality(DOMAIN ProofFiles) = Len(problem_results)
    /\ \A k \in DOMAIN problem_results :
           /\ SafeId(problem_results[k].problem_id) \in DOMAIN ProofFiles
           /\ ProofFiles[SafeId(problem_results[k].problem_id)]
                  = JsonProblem(problem_results[k])

\* C25: record_attempt only builds the attempt: whenever the driver records
\* an attempt, the new attempt has total_time = generation_time +
\* lean_check_time, its attempt_number, generation_time and lean_check_time
\* are the arguments passed, and neither the tracker's problem_results nor
\* any file changes
C25_RecordAttemptPure ==
    [][attempts_list' # attempts_list =>
          /\ Len(attempts_list') = Len(attempts_list) + 1
          /\ SubSeq(attempts_list', 1, Len(attempts_list)) = attempts_list
          /\ LET a == attempts_list'[Len(attempts_list')]
             IN  /\ a.total_time = a.generation_time + a.lean_check_time
                 /\ a.attempt_number = attempt
                 /\ a.generation_time = gret[3]
                 /\ a.lean_check_time = (IF dpc = "verify" THEN now - lean_start ELSE 0)
                 /\ (dpc = "after_gen" /\ gret[2] # "None") =>
                        (a.generation_error = gret[2] /\ ~a.success)
          /\ problem_results' = problem_results
          /\ fs' = fs]_vars

\* an attempt was recorded whose generation and verification both took time
C25_Witness ==
    \E a \in AttemptsSoFar : a.generation_time > 0 /\ a.lean_check_time > 0

\* the value 0.0 of a ratio or an average
Zero == Frac(0, 1)

\* C26: compute_metrics on a tracker without ProblemResults returns a
\* snapshot with total_problems = 0, problems_passed = 0, every Pass@K = 0,
\* both timeout counters = 0 and every average, median and total of the
\* generation, verification and total attempt times = 0
C26_EmptyMetricsAreZero ==
    (online # <<>> /\ problem_results = <<>>) =>
        /\ online.total_problems = 0
        /\ online.problems_passed = 0
        /\ online.problems_failed = 0
        /\ online.pass_at_1 = Zero
        /\ online.pass_at_8 = Zero
        /\ online.pass_at_32 = Zero
        /\ online.total_timeouts = 0
        /\ online.problems_with_timeouts = 0
        /\ online.avg_generation_time = Zero
        /\ online.avg_lean_check_time = Zero
        /\ online.avg_total_time = Zero
        /\ online.median_generation_time = 0
        /\ online.median_lean_check_time = 0
        /\ online.median_total_time = 0
        /\ online.total_generation_time = 0
        /\ online.total_lean_check_time = 0

\* compute_metrics was called on a tracker that holds no ProblemResult
C26_Witness == online # <<>> /\ problem_results = <<>>

(***************************************************************************)
(* Part IV.  Properties of the shutdown request                            *)
(***************************************************************************)
\* C27: the shutdown flag is never cleared and no step of the driver sets
\* it (only the signal handler does); once it is set the driver starts no
\* new attempt and no new problem, and an attempt is recorded after that only
\* if it was in flight, i.e. had started before the flag was set
C27_ShutdownStopsNewWork ==
    [][/\ shutdown => shutdown'
       /\ shutdown' # shutdown => UNCHANGED evalVars
       /\ shutdown => ~(epc = "attempts" /\ epc' = "in_attempt")
       /\ shutdown => ~(epc = "problems" /\ epc' = "attempts")
       /\ (shutdown /\ p_attempts_list' # p_attempts_list) =>
              (epc = "in_attempt" /\ epc' \in {"attempts", "crashed"})]_vars

\* the flag was set while an attempt was in flight; the attempt was recorded
\* and the problem loop has ended with problems left
C27_Witness ==
    /\ shutdown
    /\ epc = "end"
    /\ problems_done < MaxProblems
    /\ finished # <<>>
    /\ finished[Len(finished)] # <<>>

\* the steps in which check_lean_file or kill_process_tree signal the child
KillPath == {"killpg", "kill_tree", "wait_procs", "proc_kill"}

\* C28: a shutdown request during a verification changes nothing of the
\* supervisor or of the child's process tree (it sends no signal and ends no
\* process); with the flag set every further step is still a step of
\* check_lean_file or of the child's tree, signals are sent to the child only
\* on the call's own timeout or error path, and the call returns success only
\* when the child exited with code 0 and the timeout tuple only after its own
\* timeout
C28_ShutdownLeavesVerifierAlone ==
    [][/\ shutdown' # shutdown => UNCHANGED supVars
       /\ UNCHANGED supVars \/ NextSup
       /\ sig_log' # sig_log => spc \in KillPath
       /\ (spc # "returned" /\ spc' = "returned" /\ Len(sret') = 4) =>
              /\ sret'[4] = timeout_occurred
              /\ sret'[1] <=> (rc = <<0>> /\ spc = "communicate")]_vars

\* the request arrived during a verification whose child then exited with
\* code 0, and the call returned success
C28_Witness ==
    /\ shutdown
    /\ spc = "returned"
    /\ Len(sret) = 4
    /\ sret[1] = TRUE

\* C29: a driver whose shutdown flag was set inside a problem's attempt loop
\* leaves that loop only towards finish_problem; finish_problem appends the
\* ProblemResult of the attempts recorded so far and writes its file; the
\* problem loop then goes on to the metrics step, which computes a snapshot
\* over every sealed problem and saves it before the driver ends
C29_ShutdownSealsProblem ==
    [][/\ (shutdown /\ epc \in {"attempts", "in_attempt"}) =>
              epc' \in {"attempts", "in_attempt", "finish"}
       /\ (epc = "finish" /\ epc' # "finish") =>
              LET r == ProblemResult(ProblemIdAt(problems_done + 1), p_attempts_list)
              IN  /\ problem_results' = Append(problem_results, r)
                  /\ SafeId(r.problem_id) \in DOMAIN fs'[TrackerDir].proofs
                  /\ fs'[TrackerDir].proofs[SafeId(r.problem_id)] = JsonProblem(r)
       /\ (shutdown /\ epc = "problems") => epc' \in {"problems", "metrics"}
       /\ (epc = "metrics" /\ epc' # "metrics") =>
              /\ epc' = "end"
              /\ online' # <<>>
              /\ online'.total_problems = Len(problem_results)
              /\ Len(fs'[TrackerDir].metrics) = Len(fs[TrackerDir].metrics) + 1]_vars

(***************************************************************************)
(* Part III.  Properties of the timeout counters                           *)
(***************************************************************************)
\* the number of timed-out attempts in the attempt lists ls, counted list by
\* list
RECURSIVE TimedOutIn(_)
TimedOutIn(ls) ==
    IF ls = <<>> THEN 0
    ELSE Len(SelectSeq(ls[1], LAMBDA a : a.timeout_occurred)) + TimedOutIn(Tail(ls))

\* the attempt lists the tracker was handed, in call order
AttemptLists == [k \in DOMAIN problem_results |-> problem_results[k].attempts]

\* the problem results rs with every timed-out attempt turned into a plain
\* failed attempt
AsFailed(rs) ==
    [k \in DOMAIN rs |->
        [rs[k] EXCEPT !.attempts =
            [j \in DOMAIN @ |-> [@[j] EXCEPT !.timeout_occurred = FALSE]]]]

\* C30: in the snapshot compute_metrics returns, total_timeouts is the number
\* of attempts with timeout_occurred over all the problems the tracker holds
\* and problems_with_timeouts is the number of problems with at least one
\* such attempt; no timed-out attempt is a success, and every Pass@K is what
\* it would be with each timed-out attempt replaced by a failed one
C30_TimeoutsCountedApart ==
    online # <<>> =>
        LET plain == compute_metrics(AsFailed(problem_results), online.total_evaluation_time)
        IN  /\ online.total_timeouts = TimedOutIn(AttemptLists)
            /\ online.problems_with_timeouts =
                   Len(SelectSeq(AttemptLists, LAMBDA l : TimedOutIn(<<l>>) > 0))
            /\ online.pass_at_1 = plain.pass_at_1
            /\ online.pass_at_8 = plain.pass_at_8
            /\ online.pass_at_32 = plain.pass_at_32
            /\ online.problems_passed = plain.problems_passed
            /\ plain.total_timeouts = 0
            /\ \A k \in DOMAIN AttemptLists :
                   \A j \in DOMAIN AttemptLists[k] :
                       AttemptLists[k][j].timeout_occurred => ~AttemptLists[k][j].success

\* a snapshot over a problem whose attempts all timed out and a problem that
\* passed after a timed-out attempt
C30_Witness ==
    /\ online # <<>>
    /\ \E k \in DOMAIN AttemptLists :
           /\ Len(AttemptLists[k]) > 1
           /\ \A j \in DOMAIN AttemptLists[k] : AttemptLists[k][j].timeout_occurred
    /\ \E k \in DOMAIN AttemptLists :
           /\ Len(AttemptLists[k]) > 1
           /\ AttemptLists[k][1].timeout_occurred
           /\ AttemptLists[k][2].success

(***************************************************************************)
(* Part III.  Properties of the timing statistics                          *)
(***************************************************************************)
\* the element of rank ceil(n / 2), counted from 1, of the sorted sequence
NearestRankMedian(xs) == sorted(xs)[(Len(xs) + 1) \div 2]

\* C31: the median generation, verification and total times of the snapshot
\* are the nearest-rank median of the pooled per-attempt durations, for every
\* number n >= 1 of pooled values
C31_MedianIsNearestRank ==
    online # <<>> =>
        LET gen   == AllTimes(problem_results, "generation_time")
            lean  == AllTimes(problem_results, "lean_check_time")
            total == AllTimes(problem_results, "total_time")
        IN  gen # <<>> =>
                /\ online.median_generation_time = NearestRankMedian(gen)
                /\ online.median_lean_check_time = NearestRankMedian(lean)
                /\ online.median_total_time = NearestRankMedian(total)

\* C32: whatever the save_metrics calls made into one metrics directory, the
\* snapshot load_latest_metrics selects is the one the most recent call wrote
C32_LatestIsMostRecent ==
    metrics_files # <<>> => load_latest_metrics(metrics_files).call = saved

\* C33: kill_process_tree signals every running process of the tree it is
\* called on: an error raised while one process is signalled does not keep
\* the others from being signalled
C33_KillTreeSignalsAll ==
    [][(spc = "kill_tree" /\ spc' # spc) =>
          \A p \in TermTargets(LeanPid) \cap alive :
              \E i \in (Len(sig_log) + 1)..Len(sig_log') :
                  sig_log'[i].to = "process" /\ sig_log'[i].pid = p]_vars

\* C34: once the shutdown was requested and the metrics are saved, the process
\* exits in the end, even if the model call of a timed-out generation never
\* returns
C34_ShutdownExits == (shutdown /\ dpc = "exiting") ~> (dpc = "exited")

(***************************************************************************)
(* Part II.  Properties of the worker's checkpoints                        *)
(***************************************************************************)
\* C35: a worker that finds the cancellation flag set at a checkpoint before
\* the model call does not invoke the model; one that finds it set after the
\* model call publishes neither a result nor an error; and a worker thread
\* ends on no path without having set done
C35_WorkerCheckpoints ==
    [][\A c \in Calls :
          /\ (cancelled[c] /\ wpc[c] \in {"check_start", "tokenize"}) =>
                 wpc'[c] # "generate"
          /\ (cancelled[c] /\ wpc[c] \in {"after_generate", "except"}) =>
                 (result'[c] = result[c] /\ error'[c] = error[c])
          /\ (wpc[c] # "exited" /\ wpc'[c] = "exited") => done'[c]]_vars

\* a cancelled worker has ended at a checkpoint before the model call: it never
\* raised and never reached the write of end_time, and done is set
C35_Witness ==
    \E c \in Calls :
        /\ cancelled[c] /\ wpc[c] = "exited" /\ done[c]
        /\ start_time[c] # NoTime /\ end_time[c] = NoTime /\ ~wraised[c]
        /\ result[c] = "None" /\ error[c] = "None"

(***************************************************************************)
(* Part III.  Properties of the merge over shards of several modes         *)
(***************************************************************************)
\* the latest metrics file of shard d of the directories f declares a mode
\* other than md
OtherMode(f, d, md) ==
    /\ f[d].exists
    /\ f[d].metrics # <<>>
    /\ f[d].metrics[Len(f[d].metrics)].mode # md

\* C36: a merge that is given a mode includes no problem result of a shard
\* whose latest metrics declare another mode: every merged problem result is
\* the file of a shard that does not
C36_ModeKeepsOtherShardsOut ==
    [][(mpc = "idle" /\ mpc' = "done" /\ mode # "None") =>
          \A k \in DOMAIN merged'.problem_results :
              \E d \in ShardDirs :
                  /\ fs[d].exists
                  /\ ~OtherMode(fs, d, mode)
                  /\ \E stem \in DOMAIN fs[d].proofs :
                         fs[d].proofs[stem] = merged'.problem_results[k]]_vars

(***************************************************************************)
(* Part III.  Invariants of the computed metrics                           *)
(***************************************************************************)
\* x <= y for two fractions with positive denominators
FracLe(x, y) == x[1] * y[2] <= y[1] * x[2]

\* C37: in every EvaluationMetrics of compute_metrics, passed and failed
\* problems add up to the total, 0 <= pass_at_1 <= pass_at_8 <= pass_at_32
\* <= 1, pass_at_32 times the total is the number of passed problems, and
\* there are no more problems with timeouts than timeouts
C37_MetricsInvariants ==
    online # <<>> =>
        /\ online.problems_passed + online.problems_failed = online.total_problems
        /\ online.problems_passed >= 0 /\ online.problems_failed >= 0
        /\ FracLe(Zero, online.pass_at_1)
        /\ FracLe(online.pass_at_1, online.pass_at_8)
        /\ FracLe(online.pass_at_8, online.pass_at_32)
        /\ FracLe(online.pass_at_32, Frac(1, 1))
        /\ online.pass_at_32[1] * online.total_problems = online.problems_passed * online.pass_at_32[2]
        /\ online.problems_with_timeouts <= online.total_timeouts

\* metrics of two problems, one solved within the first PassMid attempts but
\* not by the first, one solved only later and after two timeouts: the three
\* pass rates differ and a problem holds more than one timeout
C37_Witness ==
    /\ online # <<>>
    /\ online.total_problems = MaxProblems
    /\ ~FracLe(online.pass_at_8, online.pass_at_1)
    /\ ~FracLe(online.pass_at_32, online.pass_at_8)
    /\ online.problems_with_timeouts < online.total_timeouts

C39_AggregateIsMerge ==
    LET agg == aggregate_shards(fs, mode)
        mrg == merge_shards(fs, output_dir, mode)
    IN  IF agg.status # "done" THEN mrg.status # "done"
        ELSE /\ mrg.status = "done"
             /\ mrg.merged_metrics.total_problems = agg.total
             /\ mrg.merged_metrics.pass_at_1 = Ratio(agg.pass1, agg.total)
             /\ mrg.merged_metrics.pass_at_8 = Ratio(agg.pass8, agg.total)
             /\ mrg.merged_metrics.pass_at_all = Ratio(agg.pass_all, agg.total)

====
